---- MODULE Spec2Model ----
(***************************************************************************)
(* A model of the conversion generator of go-conversion-gen                *)
(* (pkg/generator/generator.go): the peer-type resolver, the public/private*)
(* decision of generateConversion and the per-kind synthesis functions.    *)
(*                                                                         *)
(* A *types.Type is a string id; TypeOf(id) is the value it points to.     *)
(* Everything written to the snippet writer, logged with klog or asked of  *)
(* the tracker / arbiter while generating is one event of `trace`.         *)
(***************************************************************************)
EXTENDS Integers, Sequences, FiniteSets, TLC

VARIABLES
    universe,   \* context.Universe: type id -> the type it names (never changes)
    opts,       \* the Options snapshot + peerPackages of this generator
    peerTypes,  \* Generator.peerTypes: simple name -> cached peer (NotCached when no entry)
    lookups,    \* per simple name, how many times GetPeerTypeFor was called
    searches,   \* per simple name, how many times the peer packages were searched
    filtered,   \* how many types of Order the driver has handed to Filter
    accepted,   \* home types the driver's Filter call accepted
    generated,  \* home types GenerateType was called on, in call order
    trace,      \* events emitted so far (snippet writer, klog, tracker/arbiter consults)
    results,    \* per generateConversion call, in order: the pair and generateFor's errors
    ret         \* what the last call returned

vars == <<universe, opts, peerTypes, lookups, searches, filtered, accepted, generated, trace, results, ret>>

\* How many GenerateType calls one run makes at most.
MaxGenerate == 3

\* How many direct GetPeerTypeFor calls one simple name gets at most.
MaxLookups == 2

(***************************************************************************)
(* The type graph (gengo's context.Universe), a fixed finite universe.     *)
(***************************************************************************)
NoType == ""
NotCached == "<none>"

HomePkg == "home"

Mem(n, t, tg) == [name |-> n, type |-> t, tags |-> tg]

Ty(k, p, n, e, ky, u, ms, tg, pr) ==
    [kind |-> k, pkg |-> p, name |-> n, elem |-> e, key |-> ky, under |-> u,
     members |-> ms, tags |-> tg, private |-> pr]

Builtin(n) == Ty("Builtin", "", n, NoType, NoType, NoType, <<>>, <<>>, TRUE)
Slice(e) == Ty("Slice", "", "", e, NoType, NoType, <<>>, <<>>, FALSE)
Pointer(e) == Ty("Pointer", "", "", e, NoType, NoType, <<>>, <<>>, FALSE)
Map(k, e) == Ty("Map", "", "", e, k, NoType, <<>>, <<>>, FALSE)
Struct(p, n, ms, tg) == Ty("Struct", p, n, NoType, NoType, NoType, ms, tg, FALSE)
Alias(p, n, u) == Ty("Alias", p, n, NoType, NoType, u, <<>>, <<>>, FALSE)
Interface(p, n) == Ty("Interface", p, n, NoType, NoType, NoType, <<>>, <<>>, FALSE)

\* A comment tag value "+<tag-name>=v" is v split on ":".
TagFalse == <<"false">>
TagNoPublic == <<"no-public">>
TagPeerName(n) == <<"peerName", n>>

HomeAMembers ==
    << Mem("Id", "int", <<>>),
       Mem("Num", "int", <<>>),
       Mem("Skip", "int", <<TagFalse>>),
       Mem("Gone", "int", <<TagFalse>>),
       Mem("Extra", "string", <<>>),
       Mem("Drop", "lib.ItemD", <<>>),
       Mem("Man", "lib.ItemP", <<>>),
       Mem("Names", "lib.Names", <<>>),
       Mem("List", "[]lib.ItemD", <<>>),
       Mem("Ptr", "*lib.ItemD", <<>>),
       Mem("Map", "map[string]lib.ItemD", <<>>),
       Mem("Exts", "[]ext.X", <<>>),
       Mem("Kind", "int", <<>>),
       Mem("Sub", "home.C", <<>>),
       Mem("Far", "ext.X", <<>>),
       Mem("Any", "ext.I", <<>>),
       Mem("Tags", "[]home.C", <<>>) >>

PeerAMembers ==
    << Mem("Id", "int", <<>>),
       Mem("Num", "string", <<>>),
       Mem("Skip", "int", <<>>),
       Mem("Drop", "p1.ItemD", <<>>),
       Mem("Man", "p1.ItemP", <<>>),
       Mem("Names", "p1.Names", <<>>),
       Mem("List", "[]p1.ItemD", <<>>),
       Mem("Ptr", "*p1.ItemD", <<>>),
       Mem("Map", "map[string]p1.ItemD", <<>>),
       Mem("Exts", "[]p1.Y", <<>>),
       Mem("Kind", "[]string", <<>>),
       Mem("Sub", "p1.Sub", <<>>),
       Mem("Far", "p1.Y", <<>>),
       Mem("Any", "p1.I", <<>>),
       Mem("Tags", "[]p1.Sub", <<>>),
       Mem("Other", "string", <<>>) >>

\* home.D and its peer p1.D: the same member names, the same member kinds; each
\* holds a pointer to, a slice of and a map of its own type.
HomeDMembers ==
    << Mem("Far", "ext.X", <<>>),
       Mem("Code", "lib.Code", <<>>),
       Mem("Eq", "lib.ItemE", <<>>),
       Mem("Diff", "lib.ItemC", <<>>),
       Mem("Strs", "[]string", <<>>),
       Mem("Dict", "map[string]string", <<>>),
       Mem("Idx", "map[ext.X]int", <<>>),
       Mem("Vals", "map[string]ext.X", <<>>),
       Mem("Mix", "[]home.C", <<>>),
       Mem("Out", "home.C", <<>>),
       Mem("Labels", "lib.Labels", <<>>),
       Mem("Self", "*home.D", <<>>),
       Mem("Kids", "[]home.D", <<>>),
       Mem("ByName", "map[string]home.D", <<>>) >>

PeerDMembers ==
    << Mem("Far", "p1.Y", <<>>),
       Mem("Code", "p1.Code", <<>>),
       Mem("Eq", "p1.ItemE", <<>>),
       Mem("Diff", "p1.ItemC", <<>>),
       Mem("Strs", "[]string", <<>>),
       Mem("Dict", "map[string]string", <<>>),
       Mem("Idx", "map[p1.Y]int", <<>>),
       Mem("Vals", "map[string]p1.Y", <<>>),
       Mem("Mix", "[]p1.I", <<>>),
       Mem("Out", "p1.Out", <<>>),
       Mem("Labels", "p1.Labels", <<>>),
       Mem("Self", "*p1.D", <<>>),
       Mem("Kids", "[]p1.D", <<>>),
       Mem("ByName", "map[string]p1.D", <<>>) >>

Universe ==
    "int" :> Builtin("int") @@
    "string" :> Builtin("string") @@
    "[]string" :> Slice("string") @@
    "lib.Names" :> Alias("lib", "Names", "[]string") @@
    "p1.Names" :> Alias("p1", "Names", "[]string") @@
    "p1.Sub" :> Struct("p1", "Sub", <<Mem("Id", "int", <<>>)>>, <<>>) @@
    "lib.ItemD" :> Struct("lib", "ItemD", <<Mem("N", "int", <<>>)>>, <<>>) @@
    "p1.ItemD" :> Struct("p1", "ItemD", <<Mem("N", "int", <<>>)>>, <<>>) @@
    "lib.ItemP" :> Struct("lib", "ItemP", <<Mem("N", "int", <<>>)>>, <<>>) @@
    "p1.ItemP" :> Struct("p1", "ItemP", <<Mem("N", "int", <<>>)>>, <<>>) @@
    "ext.X" :> Struct("ext", "X", <<Mem("V", "int", <<>>)>>, <<>>) @@
    "p1.Y" :> Struct("p1", "Y", <<Mem("V", "string", <<>>)>>, <<>>) @@
    "ext.I" :> Interface("ext", "I") @@
    "p1.I" :> Interface("p1", "I") @@
    "[]lib.ItemD" :> Slice("lib.ItemD") @@
    "[]p1.ItemD" :> Slice("p1.ItemD") @@
    "*lib.ItemD" :> Pointer("lib.ItemD") @@
    "*p1.ItemD" :> Pointer("p1.ItemD") @@
    "map[string]lib.ItemD" :> Map("string", "lib.ItemD") @@
    "map[string]p1.ItemD" :> Map("string", "p1.ItemD") @@
    "[]ext.X" :> Slice("ext.X") @@
    "[]p1.Y" :> Slice("p1.Y") @@
    "[]home.C" :> Slice("home.C") @@
    "[]p1.Sub" :> Slice("p1.Sub") @@
    "*ext.X" :> Pointer("ext.X") @@
    "*p1.Y" :> Pointer("p1.Y") @@
    "home.A" :> Struct("home", "A", HomeAMembers, <<>>) @@
    "p1.A" :> Struct("p1", "A", PeerAMembers, <<>>) @@
    "p2.A" :> Struct("p2", "A", <<Mem("Id", "int", <<>>)>>, <<>>) @@
    "home.B" :> Struct("home", "B", <<Mem("Ref", "*ext.X", <<>>)>>, <<TagPeerName("Bee")>>) @@
    "p2.Bee" :> Struct("p2", "Bee", <<Mem("Ref", "*p1.Y", <<>>)>>, <<>>) @@
    "home.Bee" :> Struct("home", "Bee", <<>>, <<TagNoPublic, TagPeerName("B")>>) @@
    "p1.B" :> Interface("p1", "B") @@
    "p2.B" :> Alias("p2", "B", "int") @@
    "home.C" :> Struct("home", "C", <<Mem("Id", "int", <<>>)>>, <<TagPeerName("")>>) @@
    "lib.Code" :> Alias("lib", "Code", "int") @@
    "p1.Code" :> Alias("p1", "Code", "int") @@
    "lib.ItemE" :> Struct("lib", "ItemE", <<Mem("N", "int", <<>>)>>, <<>>) @@
    "p1.ItemE" :> Struct("p1", "ItemE", <<Mem("N", "int", <<>>)>>, <<>>) @@
    "lib.ItemC" :> Struct("lib", "ItemC", <<Mem("N", "int", <<>>)>>, <<>>) @@
    "p1.ItemC" :> Struct("p1", "ItemC", <<Mem("N", "string", <<>>)>>, <<>>) @@
    "map[string]string" :> Map("string", "string") @@
    "map[ext.X]int" :> Map("ext.X", "int") @@
    "map[p1.Y]int" :> Map("p1.Y", "int") @@
    "map[string]ext.X" :> Map("string", "ext.X") @@
    "map[string]p1.Y" :> Map("string", "p1.Y") @@
    "[]p1.I" :> Slice("p1.I") @@
    "p1.Out" :> Struct("p1", "Out", <<Mem("Id", "int", <<>>)>>, <<TagFalse>>) @@
    "lib.Labels" :> Alias("lib", "Labels", "[]string") @@
    "p1.Labels" :> Alias("p1", "Labels", "[]string") @@
    "*home.D" :> Pointer("home.D") @@
    "*p1.D" :> Pointer("p1.D") @@
    "[]home.D" :> Slice("home.D") @@
    "[]p1.D" :> Slice("p1.D") @@
    "map[string]home.D" :> Map("string", "home.D") @@
    "map[string]p1.D" :> Map("string", "p1.D") @@
    "home.D" :> Struct("home", "D", HomeDMembers, <<>>) @@
    "p1.D" :> Struct("p1", "D", PeerDMembers, <<>>)

\* The types of the home package: the ones the driver hands to Filter and
\* GenerateType (Converter.packages' FilterFunc keeps t.Name.Package == pkg.Path).
HomeTypes == {"home.A", "home.B", "home.Bee", "home.C", "home.D"}

\* The types the parser made (doStruct's copies are in no package).
Parsed == DOMAIN Universe

\* The packages of the universe; a configured peer path outside it is not loaded.
Packages == {"home", "p1", "p2", "ext", "lib"}

\* Package.Has(name) / Package.Types[name]
PkgType(pkg, n) ==
    LET hits == {id \in Parsed : universe[id].pkg = pkg /\ universe[id].name = n}
    IN IF pkg \in Packages /\ hits # {} THEN CHOOSE id \in hits : TRUE ELSE NoType

\* The configured peer package lists.
PeerPackageLists ==
    { <<"p1", "p2">>, <<"p2", "p1">>, <<"home", "p1">>, <<"gone", "p2", "p1">> }

\* unwrapAlias: follow Underlying while the kind is Alias.
RECURSIVE unwrapAlias(_)
unwrapAlias(id) ==
    IF universe[id].kind = "Alias" THEN unwrapAlias(universe[id].under) ELSE id

\* doStruct's copy of an alias member's underlying type under the alias's name
\* ("copied := *underlying; copied.Name = ..."): a fresh *types.Type, equal to no
\* type the parser made. The source and the target member get a copy each.
Copies ==
    { [of |-> "lib.Names", side |-> "in", id |-> "in copy of lib.Names"],
      [of |-> "lib.Names", side |-> "out", id |-> "out copy of lib.Names"],
      [of |-> "p1.Names", side |-> "in", id |-> "in copy of p1.Names"],
      [of |-> "p1.Names", side |-> "out", id |-> "out copy of p1.Names"],
      [of |-> "lib.Code", side |-> "in", id |-> "in copy of lib.Code"],
      [of |-> "lib.Code", side |-> "out", id |-> "out copy of lib.Code"],
      [of |-> "p1.Code", side |-> "in", id |-> "in copy of p1.Code"],
      [of |-> "p1.Code", side |-> "out", id |-> "out copy of p1.Code"],
      [of |-> "lib.Labels", side |-> "in", id |-> "in copy of lib.Labels"],
      [of |-> "lib.Labels", side |-> "out", id |-> "out copy of lib.Labels"],
      [of |-> "p1.Labels", side |-> "in", id |-> "in copy of p1.Labels"],
      [of |-> "p1.Labels", side |-> "out", id |-> "out copy of p1.Labels"] }

CopyId(id, side) ==
    IF unwrapAlias(id) # id
    THEN (CHOOSE c \in Copies : c.of = id /\ c.side = side).id
    ELSE id

RECURSIVE Underlying(_)
Underlying(id) == IF Universe[id].kind = "Alias" THEN Underlying(Universe[id].under) ELSE id

\* Every *types.Type a run can hold: the parsed types and doStruct's copies.
TypeGraph ==
    [id \in DOMAIN Universe \cup {c.id : c \in Copies} |->
        IF id \in DOMAIN Universe
        THEN Universe[id]
        ELSE LET c == CHOOSE c \in Copies : c.id = id
             IN [Universe[Underlying(c.of)] EXCEPT !.name = Universe[c.of].name,
                                                   !.pkg = Universe[c.of].pkg]]

\* The value a *types.Type points to.
TypeOf(id) == universe[id]

(***************************************************************************)
(* Comment tags.                                                           *)
(***************************************************************************)
\* hasTag: some value of the tag equals `value`.
hasTag(tags, value) == \E i \in 1..Len(tags) : tags[i] = <<value>>

\* hasTagOption: the first value that splits on ":" in exactly two parts, the
\* first being optionName; <<present, optionValue>>.
hasTagOption(tags, optionName) ==
    LET hits == {i \in 1..Len(tags) : Len(tags[i]) = 2 /\ tags[i][1] = optionName}
    IN IF hits = {}
       THEN <<FALSE, "">>
       ELSE <<TRUE, tags[CHOOSE i \in hits : \A j \in hits : i <= j][2]>>

optedOut(tags) == hasTag(tags, "false")

noPublicFun(t) == hasTag(TypeOf(t).tags, "no-public")

(***************************************************************************)
(* The manual conversion tracker, as built by NewConversionGenerator.      *)
(***************************************************************************)
NoFunc == [in |-> NoType, out |-> NoType, fn |-> "", tags |-> {}]

conversionFunctions ==
    { [in |-> "lib.ItemD", out |-> "p1.ItemD", fn |-> "Convert_lib_ItemD_To_p1_ItemD", tags |-> {"drop"}],
      [in |-> "lib.ItemP", out |-> "p1.ItemP", fn |-> "Convert_lib_ItemP_To_p1_ItemP", tags |-> {}],
      [in |-> "lib.Names", out |-> "p1.Names", fn |-> "Convert_lib_Names_To_p1_Names", tags |-> {"drop"}],
      [in |-> "p2.A", out |-> "home.A", fn |-> "Convert_p2_A_To_home_A", tags |-> {}],
      [in |-> "lib.Code", out |-> "p1.Code", fn |-> "Convert_lib_Code_To_p1_Code", tags |-> {"copy-only"}],
      [in |-> "lib.ItemE", out |-> "p1.ItemE", fn |-> "Convert_lib_ItemE_To_p1_ItemE", tags |-> {"copy-only"}],
      [in |-> "lib.ItemC", out |-> "p1.ItemC", fn |-> "Convert_lib_ItemC_To_p1_ItemC", tags |-> {"copy-only"}],
      [in |-> "lib.Labels", out |-> "p1.Labels", fn |-> "Convert_lib_Labels_To_p1_Labels", tags |-> {}] }

\* The extra arguments every conversion function takes after in and out, as the
\* tracker holds them: NamedVariables, in order.
additionalConversionArguments ==
    << [name |-> "scope", type |-> "conversion.Scope"],
       [name |-> "ctx", type |-> "context.Context"] >>

\* ManualConversionsTracker.preexists: the function registered for the pair, if any.
preexists(inType, outType) ==
    LET hits == {f \in conversionFunctions : f.in = inType /\ f.out = outType}
    IN IF hits = {} THEN NoFunc ELSE CHOOSE f \in hits : TRUE

functionHasTag(function, tagValue) == tagValue \in function.tags

(***************************************************************************)
(* The layout arbiter.                                                     *)
(***************************************************************************)
\* A manual conversion that is not copy-only changes the bits.
disqualified(a, b) ==
    \/ preexists(a, b) # NoFunc /\ ~functionHasTag(preexists(a, b), "copy-only")
    \/ preexists(b, a) # NoFunc /\ ~functionHasTag(preexists(b, a), "copy-only")

RECURSIVE equalLayout(_, _, _)
equalLayout(a, b, visited) ==
    IF a = b THEN TRUE
    ELSE IF disqualified(a, b) THEN FALSE
    ELSE LET in == unwrapAlias(a)
             out == unwrapAlias(b)
             ti == TypeOf(in)
             to == TypeOf(out)
         IN IF in = out THEN TRUE
            ELSE IF ti.kind # to.kind THEN FALSE
            ELSE IF in \in visited THEN TRUE
            ELSE CASE ti.kind = "Struct" ->
                        /\ Len(ti.members) = Len(to.members)
                        /\ \A i \in 1..Len(ti.members) :
                              equalLayout(ti.members[i].type, to.members[i].type, visited \cup {in})
                   [] ti.kind \in {"Pointer", "Slice"} ->
                        equalLayout(ti.elem, to.elem, visited \cup {in})
                   [] ti.kind = "Map" ->
                        /\ equalLayout(ti.key, to.key, visited \cup {in})
                        /\ equalLayout(ti.elem, to.elem, visited \cup {in})
                   [] ti.kind = "Builtin" -> ti.name = to.name
                   [] OTHER -> FALSE

canUseUnsafeConversion(a, b) == equalLayout(a, b, {})

\* A generator that asks the arbitrator whatever NoUnsafeConversions says.
useUnsafeConversionAlways(t1, t2) == canUseUnsafeConversion(t1, t2)

useUnsafeConversion(t1, t2) == ~opts.noUnsafe /\ canUseUnsafeConversion(t1, t2)

(***************************************************************************)
(* Assignability.                                                          *)
(***************************************************************************)
IsPrimitive(t) ==
    \/ TypeOf(t).kind = "Builtin"
    \/ TypeOf(t).kind = "Alias" /\ TypeOf(TypeOf(t).under).kind = "Builtin"

RECURSIVE IsAssignable(_)
IsAssignable(t) ==
    \/ IsPrimitive(t)
    \/ /\ TypeOf(t).kind = "Struct"
       /\ \A i \in 1..Len(TypeOf(t).members) : IsAssignable(TypeOf(t).members[i].type)

isDirectlyAssignable(inType, outType) ==
    IsAssignable(inType) /\ (IsPrimitive(inType) \/ TypeOf(inType).pkg = TypeOf(outType).pkg)

isFastConversion(inType, outType) ==
    CASE TypeOf(inType).kind = "Builtin" -> TRUE
      [] TypeOf(inType).kind \in {"Map", "Slice", "Pointer", "Struct", "Alias"} ->
            isDirectlyAssignable(inType, outType)
      [] OTHER -> FALSE

\* findMember: the index of outType's member called name, 0 when there is none.
findMember(outType, n) ==
    LET ms == TypeOf(outType).members
        hits == {i \in 1..Len(ms) : ms[i].name = n}
    IN IF TypeOf(outType).kind # "Struct" \/ hits = {}
       THEN 0
       ELSE CHOOSE i \in hits : \A j \in hits : i <= j

\* A generator that does not ask for one of the two types to be in the home package.
convertibleOnlyWithinPackageAnywhere(inType, outType) ==
    LET t == IF TypeOf(inType).pkg = HomePkg THEN inType ELSE outType
        other == IF TypeOf(inType).pkg = HomePkg THEN outType ELSE inType
    IN /\ ~optedOut(TypeOf(t).tags)
       /\ TypeOf(t).kind = "Struct"
       /\ ~TypeOf(other).private

convertibleOnlyWithinPackage(inType, outType) ==
    LET t == IF TypeOf(inType).pkg = HomePkg THEN inType ELSE outType
        other == IF TypeOf(inType).pkg = HomePkg THEN outType ELSE inType
    IN /\ TypeOf(t).pkg = HomePkg
       /\ ~optedOut(TypeOf(t).tags)
       /\ TypeOf(t).kind = "Struct"
       /\ ~TypeOf(other).private

(***************************************************************************)
(* Events and results.                                                     *)
(***************************************************************************)
\* One event: op says what was emitted, logged or consulted; m is the source
\* member being processed ("" outside doStruct's loop); a, b the type pair;
\* f the function called or the handler invoked.
\* x is what the text holds of the extra arguments, in the order written.
Ev(op, a, b, f) == [op |-> op, m |-> "", a |-> a, b |-> b, f |-> f, x |-> <<>>]

\* A generator that passes only the first of the extra arguments.
extraArgumentsStringFirstOnly ==
    IF Len(additionalConversionArguments) = 0
    THEN <<>>
    ELSE <<additionalConversionArguments[1].name>>

\* extraArgumentsString: ", name" for each extra argument.
extraArgumentsString ==
    [i \in 1..Len(additionalConversionArguments) |-> additionalConversionArguments[i].name]

\* writeConversionFunctionSignature, its extra arguments: "name type" for each
\* in a declaration, "name" in the call the public function makes.
writeConversionFunctionSignature(inType, outType, includeArgsTypes) ==
    [i \in 1..Len(additionalConversionArguments) |->
        IF includeArgsTypes
        THEN <<additionalConversionArguments[i].name, additionalConversionArguments[i].type>>
        ELSE <<additionalConversionArguments[i].name>>]

\* A call of a manual or of a generated function: the extra arguments follow
\* the two pointers.
Call(op, a, b, f) == [Ev(op, a, b, f) EXCEPT !.x = extraArgumentsString]

\* "func auto<signature> {"
Signature(inType, outType) ==
    [Ev("sig", inType, outType, "") EXCEPT
        !.x = writeConversionFunctionSignature(inType, outType, TRUE)]

\* The public function: its signature, then the call of the private one.
Public(inType, outType) ==
    [Ev("public", inType, outType, "") EXCEPT
        !.x = writeConversionFunctionSignature(inType, outType, TRUE)
              \o writeConversionFunctionSignature(inType, outType, FALSE)]

\* A field error, as appended to a function's `errors` slice.
Err(h, a, b) == [handler |-> h, m |-> "", a |-> a, b |-> b]

Res(ev, errs) == [ev |-> ev, errs |-> errs]

Cat(r1, r2) == Res(r1.ev \o r2.ev, r1.errs \o r2.errs)

ForMember(r, n) ==
    Res([i \in 1..Len(r.ev) |-> [r.ev[i] EXCEPT !.m = n]],
        [i \in 1..Len(r.errs) |-> [r.errs[i] EXCEPT !.m = n]])

\* Events that are text written to the snippet writer by the generator itself.
CodeOps ==
    {"sig", "close", "public", "comment", "assign", "conv", "unsafe", "callManual",
     "callInternal", "make", "new", "copy", "loop", "stubloop", "fixme", "store",
     "blank", "end", "nilguard", "shadow", "else", "setnil"}

\* Events that are a conversion statement (anything but a comment or the frame).
StatementOps == CodeOps \ {"sig", "close", "public", "comment"}

(***************************************************************************)
(* Extension handlers: each is unset, or set to a callback that returns    *)
(* nil, or one that returns an error.                                      *)
(***************************************************************************)
HandlerModes == {"unset", "ok", "err"}
ExternalModes == {"unset", "handled", "declined", "err"}

\* The fallback chain shared by doMap, doSlice and doPointer: a manual function,
\* else an internal call, else nothing (manualOrInternal stays false).
manualOrInternal(inElem, outElem) ==
    LET function == preexists(inElem, outElem)
    IN IF function # NoFunc
       THEN <<Ev("preexists", inElem, outElem, ""), Call("callManual", inElem, outElem, function.fn)>>
       ELSE IF convertibleOnlyWithinPackage(inElem, outElem)
            THEN <<Ev("preexists", inElem, outElem, ""), Call("callInternal", inElem, outElem, "")>>
            ELSE <<Ev("preexists", inElem, outElem, "")>>

IsCall(e) == e.op \in {"callManual", "callInternal"}

HasCall(evs) == \E i \in 1..Len(evs) : IsCall(evs[i])

\* ExternalConversionsHandler at a site of doMap / doPointer (its bool is ignored).
externalOrWarn(a, b) ==
    CASE opts.ext = "unset" -> Res(<<Ev("warn", a, b, "external")>>, <<>>)
      [] opts.ext = "err" -> Res(<<Ev("handler", a, b, "External")>>, <<Err("External", a, b)>>)
      [] OTHER -> Res(<<Ev("handler", a, b, "External")>>, <<>>)

doBuiltin(inType, outType) ==
    IF inType = outType
    THEN Res(<<Ev("assign", inType, outType, "")>>, <<>>)
    ELSE Res(<<Ev("conv", inType, outType, "")>>, <<>>)

doMap(inType, outType) ==
    LET i == TypeOf(inType)
        o == TypeOf(outType)
        chain == manualOrInternal(i.elem, o.elem)
        value ==
            IF isDirectlyAssignable(i.elem, o.elem)
            THEN Res(<<Ev(IF i.key = o.key /\ i.elem = o.elem THEN "assign" ELSE "conv",
                          i.elem, o.elem, "")>>, <<>>)
            ELSE Cat(Cat(Res(<<Ev("new", i.elem, o.elem, "")>> \o chain, <<>>),
                         IF HasCall(chain) THEN Res(<<>>, <<>>) ELSE externalOrWarn(i.elem, o.elem)),
                     Res(<<Ev("store", i.key, o.key, "")>>, <<>>))
    IN IF isDirectlyAssignable(i.key, o.key)
       THEN Cat(Cat(Res(<<Ev("make", inType, outType, ""), Ev("loop", inType, outType, "")>>, <<>>),
                    value),
                Res(<<Ev("end", inType, outType, "")>>, <<>>))
       ELSE Res(<<Ev("make", inType, outType, ""), Ev("stubloop", inType, outType, ""),
                  Ev("fixme", i.key, o.key, ""), Ev("end", inType, outType, "")>>, <<>>)

\* A generator without the bulk copy: every slice gets the loop.
doSliceAlwaysLoops(inType, outType) ==
    Res(<<Ev("make", inType, outType, ""), Ev("loop", inType, outType, ""),
          Ev("assign", TypeOf(inType).elem, TypeOf(outType).elem, ""),
          Ev("end", inType, outType, "")>>, <<>>)

\* A generator that opens one more nested block for the elements of a slice.
doSliceNests(inType, outType) ==
    Res(<<Ev("make", inType, outType, ""), Ev("loop", inType, outType, ""),
          Ev("nilguard", TypeOf(inType).elem, TypeOf(outType).elem, ""),
          Ev("shadow", TypeOf(inType).elem, TypeOf(outType).elem, ""),
          Ev("assign", TypeOf(inType).elem, TypeOf(outType).elem, ""),
          Ev("else", TypeOf(inType).elem, TypeOf(outType).elem, ""),
          Ev("end", inType, outType, "")>>, <<>>)

doSlice(inType, outType) ==
    LET i == TypeOf(inType)
        o == TypeOf(outType)
        chain == manualOrInternal(i.elem, o.elem)
        external ==
            CASE opts.ext = "unset" ->
                    Res(<<Ev("warn", i.elem, o.elem, "external"), Ev("blank", i.elem, o.elem, "")>>, <<>>)
              [] opts.ext = "err" ->
                    Res(<<Ev("handler", i.elem, o.elem, "External"), Ev("blank", i.elem, o.elem, "")>>,
                        <<Err("External", i.elem, o.elem)>>)
              [] opts.ext = "declined" ->
                    Res(<<Ev("handler", i.elem, o.elem, "External"), Ev("blank", i.elem, o.elem, "")>>, <<>>)
              [] OTHER -> Res(<<Ev("handler", i.elem, o.elem, "External")>>, <<>>)
        item ==
            IF isDirectlyAssignable(i.elem, o.elem)
            THEN Res(<<Ev(IF i.elem = o.elem THEN "assign" ELSE "conv", i.elem, o.elem, "")>>, <<>>)
            ELSE Cat(Res(chain, <<>>), IF HasCall(chain) THEN Res(<<>>, <<>>) ELSE external)
    IN IF i.elem = o.elem /\ TypeOf(i.elem).kind = "Builtin"
       THEN Res(<<Ev("make", inType, outType, ""), Ev("copy", inType, outType, "")>>, <<>>)
       ELSE Cat(Cat(Res(<<Ev("make", inType, outType, ""), Ev("loop", inType, outType, "")>>, <<>>),
                    item),
                Res(<<Ev("end", inType, outType, "")>>, <<>>))

doPointer(inType, outType) ==
    LET i == TypeOf(inType)
        o == TypeOf(outType)
        chain == manualOrInternal(i.elem, o.elem)
    IN IF isDirectlyAssignable(i.elem, o.elem)
       THEN Res(<<Ev("new", inType, outType, ""),
                  Ev(IF i.elem = o.elem THEN "assign" ELSE "conv", i.elem, o.elem, "")>>, <<>>)
       ELSE Cat(Res(<<Ev("new", inType, outType, "")>> \o chain, <<>>),
                IF HasCall(chain) THEN Res(<<>>, <<>>) ELSE externalOrWarn(inType, outType))

\* A generator for which a type it cannot convert is a field error, handler or not.
doUnknownStrict(inType, outType) ==
    CASE opts.unsupp = "unset" ->
            Res(<<Ev("warn", inType, outType, "unsupported")>>, <<Err("Unsupported", inType, outType)>>)
      [] opts.unsupp = "err" ->
            Res(<<Ev("handler", inType, outType, "Unsupported")>>, <<Err("Unsupported", inType, outType)>>)
      [] OTHER -> Res(<<Ev("handler", inType, outType, "Unsupported")>>, <<>>)

doUnknown(inType, outType) ==
    CASE opts.unsupp = "unset" -> Res(<<Ev("warn", inType, outType, "unsupported")>>, <<>>)
      [] opts.unsupp = "err" ->
            Res(<<Ev("handler", inType, outType, "Unsupported")>>, <<Err("Unsupported", inType, outType)>>)
      [] OTHER -> Res(<<Ev("handler", inType, outType, "Unsupported")>>, <<>>)

\* A generator that converts an alias as it would its underlying type.
doAliasConverts(inType, outType) == Res(<<Ev("conv", inType, outType, "")>>, <<>>)

doAlias(inType, outType) == doUnknown(inType, outType)

(***************************************************************************)
(* doStruct, one source member at a time.                                  *)
(***************************************************************************)
RECURSIVE generateFor(_, _)

\* A generator that calls MissingFieldsHandler and forgets what it returned.
missingFieldForgetful(inType, outType, inMember) ==
    IF opts.missing = "unset"
    THEN Res(<<Ev("warn", inType, outType, "missing")>>, <<>>)
    ELSE Res(<<Ev("handler", inType, outType, "Missing")>>, <<>>)

\* The "does not exist in the peer" branch.
missingField(inType, outType, inMember) ==
    CASE opts.missing = "unset" -> Res(<<Ev("warn", inType, outType, "missing")>>, <<>>)
      [] opts.missing = "err" ->
            Res(<<Ev("handler", inType, outType, "Missing")>>, <<Err("Missing", inType, outType)>>)
      [] OTHER -> Res(<<Ev("handler", inType, outType, "Missing")>>, <<>>)

\* A generator that writes a conversion where the member kinds differ.
inconvertibleFieldConverts(inType, outType, inMember, outMember) ==
    Res(<<Ev("conv", inType, outType, "")>>, <<>>)

\* The "inconvertible types" branch.
inconvertibleField(inType, outType, inMember, outMember) ==
    CASE opts.inconv = "unset" -> Res(<<Ev("warn", inType, outType, "inconvertible")>>, <<>>)
      [] opts.inconv = "err" ->
            Res(<<Ev("handler", inType, outType, "Inconvertible")>>,
                <<Err("Inconvertible", inType, outType)>>)
      [] OTHER -> Res(<<Ev("handler", inType, outType, "Inconvertible")>>, <<>>)

\* A generator that takes "not handled" from ExternalConversionsHandler for a
\* field error.
callExternalConversionsHandlerForStructFieldStrict(inMemberType, outMemberType) ==
    CASE opts.ext = "unset" -> Res(<<Ev("warn", inMemberType, outMemberType, "external")>>, <<>>)
      [] opts.ext \in {"err", "declined"} ->
            Res(<<Ev("handler", inMemberType, outMemberType, "External")>>,
                <<Err("External", inMemberType, outMemberType)>>)
      [] OTHER -> Res(<<Ev("handler", inMemberType, outMemberType, "External")>>, <<>>)

callExternalConversionsHandlerForStructField(inMemberType, outMemberType) ==
    CASE opts.ext = "unset" -> Res(<<Ev("warn", inMemberType, outMemberType, "external")>>, <<>>)
      [] opts.ext = "err" ->
            Res(<<Ev("handler", inMemberType, outMemberType, "External")>>,
                <<Err("External", inMemberType, outMemberType)>>)
      [] OTHER -> Res(<<Ev("handler", inMemberType, outMemberType, "External")>>, <<>>)

internalOrExternal(inMemberType, outMemberType) ==
    IF convertibleOnlyWithinPackage(inMemberType, outMemberType)
    THEN Res(<<Call("callInternal", inMemberType, outMemberType, "")>>, <<>>)
    ELSE callExternalConversionsHandlerForStructField(inMemberType, outMemberType)

\* The nil-guarded recursive call for a Map, Slice or Pointer member.
nestedMember(inMemberType, outMemberType) ==
    Res(<<Ev("nilguard", inMemberType, outMemberType, ""),
          Ev("shadow", inMemberType, outMemberType, "")>>
        \o generateFor(inMemberType, outMemberType).ev
        \o <<Ev("else", inMemberType, outMemberType, ""),
             Ev("setnil", inMemberType, outMemberType, ""),
             Ev("end", inMemberType, outMemberType, "")>>,
        <<>>)

\* The switch on the member's kind, once the kinds are known to agree.
memberByKind(inMemberType, outMemberType) ==
    LET k == TypeOf(inMemberType).kind
        direct == Res(<<Ev("assign", inMemberType, outMemberType, "")>>, <<>>)
        convert == Res(<<Ev("conv", inMemberType, outMemberType, "")>>, <<>>)
    IN CASE k = "Builtin" -> IF inMemberType = outMemberType THEN direct ELSE convert
         [] k \in {"Map", "Slice", "Pointer"} ->
               IF isDirectlyAssignable(inMemberType, outMemberType)
               THEN direct
               ELSE nestedMember(inMemberType, outMemberType)
         [] k = "Struct" ->
               IF isDirectlyAssignable(inMemberType, outMemberType)
               THEN direct
               ELSE internalOrExternal(inMemberType, outMemberType)
         [] k = "Alias" ->
               IF isDirectlyAssignable(inMemberType, outMemberType)
               THEN IF inMemberType = outMemberType THEN direct ELSE convert
               ELSE internalOrExternal(inMemberType, outMemberType)
         [] OTHER -> internalOrExternal(inMemberType, outMemberType)

\* A generator that calls every manual function that is not dropped, copy-only
\* or not.
manualOrByKindAlwaysCalls(inType, outType, inMember, outMember, inMemberType, outMemberType) ==
    LET function == preexists(inMember.type, outMember.type)
        asked == Res(<<Ev("preexists", inMember.type, outMember.type, "")>>, <<>>)
    IN IF function # NoFunc /\ functionHasTag(function, "drop")
       THEN asked
       ELSE IF function # NoFunc
            THEN Cat(asked, Res(<<Call("callManual", inMember.type, outMember.type, function.fn)>>, <<>>))
            ELSE IF TypeOf(inMemberType).kind # TypeOf(outMemberType).kind
                 THEN Cat(asked, inconvertibleField(inType, outType, inMember, outMember))
                 ELSE Cat(asked, memberByKind(inMemberType, outMemberType))

\* A generator that prefers its own field-level logic to a manual function.
manualOrByKindPrefersFields(inType, outType, inMember, outMember, inMemberType, outMemberType) ==
    LET function == preexists(inMember.type, outMember.type)
        asked == Res(<<Ev("preexists", inMember.type, outMember.type, "")>>, <<>>)
    IN IF function # NoFunc /\ functionHasTag(function, "drop")
       THEN asked
       ELSE IF TypeOf(inMemberType).kind # TypeOf(outMemberType).kind
            THEN IF function # NoFunc
                 THEN Cat(asked, Res(<<Call("callManual", inMember.type, outMember.type, function.fn)>>, <<>>))
                 ELSE Cat(asked, inconvertibleField(inType, outType, inMember, outMember))
            ELSE Cat(asked, memberByKind(inMemberType, outMemberType))

\* A generator that treats a copy-only function it can do without as a dropped one.
manualOrByKindDropsCopyOnly(inType, outType, inMember, outMember, inMemberType, outMemberType) ==
    LET function == preexists(inMember.type, outMember.type)
        asked == Res(<<Ev("preexists", inMember.type, outMember.type, "")>>, <<>>)
    IN IF function # NoFunc /\ functionHasTag(function, "drop")
       THEN asked
       ELSE IF function # NoFunc
            THEN IF /\ functionHasTag(function, "copy-only")
                    /\ isFastConversion(inMemberType, outMemberType)
                 THEN asked
                 ELSE Cat(asked, Res(<<Call("callManual", inMember.type, outMember.type, function.fn)>>, <<>>))
            ELSE IF TypeOf(inMemberType).kind # TypeOf(outMemberType).kind
                 THEN Cat(asked, inconvertibleField(inType, outType, inMember, outMember))
                 ELSE Cat(asked, memberByKind(inMemberType, outMemberType))

\* From the tracker lookup on: a manual function, else the kind check.
manualOrByKind(inType, outType, inMember, outMember, inMemberType, outMemberType) ==
    LET function == preexists(inMember.type, outMember.type)
        asked == Res(<<Ev("preexists", inMember.type, outMember.type, "")>>, <<>>)
    IN IF function # NoFunc /\ functionHasTag(function, "drop")
       THEN asked
       ELSE IF /\ function # NoFunc
               /\ \/ ~functionHasTag(function, "copy-only")
                  \/ ~isFastConversion(inMemberType, outMemberType)
            THEN Cat(asked, Res(<<Call("callManual", inMember.type, outMember.type, function.fn)>>, <<>>))
            ELSE IF TypeOf(inMemberType).kind # TypeOf(outMemberType).kind
                 THEN Cat(asked, inconvertibleField(inType, outType, inMember, outMember))
                 ELSE Cat(asked, memberByKind(inMemberType, outMemberType))

\* A member that exists on both sides: the unsafe shortcut first.
convertMember(inType, outType, inMember, outMember) ==
    LET inMemberType == CopyId(inMember.type, "in")
        outMemberType == CopyId(outMember.type, "out")
        asked == IF opts.noUnsafe
                 THEN Res(<<>>, <<>>)
                 ELSE Res(<<Ev("arbiter", inMemberType, outMemberType, "")>>, <<>>)
    IN IF /\ useUnsafeConversion(inMemberType, outMemberType)
          /\ TypeOf(inMemberType).kind \in {"Pointer", "Map", "Slice"}
       THEN Cat(asked, Res(<<Ev("unsafe", inMemberType, outMemberType, "")>>, <<>>))
       ELSE Cat(asked, manualOrByKind(inType, outType, inMember, outMember,
                                      inMemberType, outMemberType))

\* The opted-out branch: the marker comment, nothing else.
optedOutMember(inType, outType, inMember) ==
    Res(<<Ev("comment", inType, outType, "")>>, <<>>)

\* A loop body that looks for the peer's member before it looks at the opt-out.
doMemberMissingFirst(inType, outType, inMember) ==
    LET j == findMember(outType, inMember.name)
    IN ForMember(
         IF j = 0
         THEN missingField(inType, outType, inMember)
         ELSE IF optedOut(inMember.tags)
              THEN optedOutMember(inType, outType, inMember)
              ELSE convertMember(inType, outType, inMember, TypeOf(outType).members[j]),
         inMember.name)

\* One iteration of doStruct's loop.
doMember(inType, outType, inMember) ==
    LET j == findMember(outType, inMember.name)
    IN ForMember(
         IF optedOut(inMember.tags)
         THEN optedOutMember(inType, outType, inMember)
         ELSE IF j = 0
              THEN missingField(inType, outType, inMember)
              ELSE convertMember(inType, outType, inMember, TypeOf(outType).members[j]),
         inMember.name)

RECURSIVE doStructFrom(_, _, _)
doStructFrom(inType, outType, i) ==
    IF i > Len(TypeOf(inType).members)
    THEN Res(<<>>, <<>>)
    ELSE Cat(doMember(inType, outType, TypeOf(inType).members[i]),
             doStructFrom(inType, outType, i + 1))

\* A generator that walks the members in another order than they are declared in.
doStructFirstLast(inType, outType) ==
    IF Len(TypeOf(inType).members) = 0
    THEN Res(<<>>, <<>>)
    ELSE Cat(doStructFrom(inType, outType, 2),
             doMember(inType, outType, TypeOf(inType).members[1]))

\* A generator that also reports the first member only the target has.
doStructBothSides(inType, outType) ==
    LET outs == IF TypeOf(outType).kind = "Struct" THEN TypeOf(outType).members ELSE <<>>
        only == {j \in 1..Len(outs) :
                    \A i \in 1..Len(TypeOf(inType).members) :
                        TypeOf(inType).members[i].name # outs[j].name}
    IN IF only = {}
       THEN doStructFrom(inType, outType, 1)
       ELSE LET first == outs[CHOOSE j \in only : \A h \in only : j <= h]
            IN Cat(doStructFrom(inType, outType, 1),
                   ForMember(missingField(outType, inType, first), first.name))

doStruct(inType, outType) == doStructFrom(inType, outType, 1)

\* A generator whose switch looks at the kind of the type it converts to.
generateForByOutType(inType, outType) ==
    LET k == TypeOf(outType).kind
    IN CASE k = "Builtin" -> doBuiltin(inType, outType)
         [] k = "Map" -> doMap(inType, outType)
         [] k = "Slice" -> doSlice(inType, outType)
         [] k = "Struct" -> doStruct(inType, outType)
         [] k = "Pointer" -> doPointer(inType, outType)
         [] k = "Alias" -> doAlias(inType, outType)
         [] OTHER -> doUnknown(inType, outType)

generateFor(inType, outType) ==
    LET k == TypeOf(inType).kind
    IN CASE k = "Builtin" -> doBuiltin(inType, outType)
         [] k = "Map" -> doMap(inType, outType)
         [] k = "Slice" -> doSlice(inType, outType)
         [] k = "Struct" -> doStruct(inType, outType)
         [] k = "Pointer" -> doPointer(inType, outType)
         [] k = "Alias" -> doAlias(inType, outType)
         [] OTHER -> doUnknown(inType, outType)

(***************************************************************************)
(* generateConversion: the private function, then the public decision.     *)
(***************************************************************************)
\* A generator that writes the public function whatever the errors were.
emitsPublicDespiteErrors(inType, outType, errors) ==
    /\ preexists(inType, outType) = NoFunc
    /\ ~(noPublicFun(inType) \/ noPublicFun(outType))

emitsPublic(inType, outType, errors) ==
    /\ preexists(inType, outType) = NoFunc
    /\ ~(noPublicFun(inType) \/ noPublicFun(outType))
    /\ Len(errors) = 0

\* A generator that gives up on the private function at the first field error.
generateConversionAborting(inType, outType) ==
    LET body == generateFor(inType, outType)
    IN IF Len(body.errs) > 0
       THEN Res(<<Signature(inType, outType)>> \o body.ev, body.errs)
       ELSE Res(<<Signature(inType, outType)>> \o body.ev
                \o <<Ev("close", inType, outType, "")>>
                \o (IF emitsPublic(inType, outType, body.errs)
                    THEN <<Public(inType, outType)>>
                    ELSE <<>>),
                body.errs)

generateConversion(inType, outType) ==
    LET body == generateFor(inType, outType)
        private == <<Signature(inType, outType)>> \o body.ev \o <<Ev("close", inType, outType, "")>>
        after ==
            IF emitsPublic(inType, outType, body.errs)
            THEN <<Public(inType, outType)>>
            ELSE IF /\ preexists(inType, outType) = NoFunc
                    /\ ~(noPublicFun(inType) \/ noPublicFun(outType))
                 THEN <<Ev("logError", inType, outType, "")>>
                 ELSE <<>>
    IN Res(private \o after, body.errs)

(***************************************************************************)
(* The peer resolver.                                                      *)
(***************************************************************************)
\* The name looked up: the peerName option when present and not empty.
peerNameOf(t) ==
    LET option == hasTagOption(universe[t].tags, "peerName")
    IN IF option[1] /\ option[2] # "" THEN option[2] ELSE universe[t].name

\* A loop without its break: the last package that has the name wins.
RECURSIVE searchPeerLast(_, _, _)
searchPeerLast(pkgs, n, i) ==
    IF i > Len(pkgs)
    THEN NoType
    ELSE IF searchPeerLast(pkgs, n, i + 1) # NoType
         THEN searchPeerLast(pkgs, n, i + 1)
         ELSE PkgType(pkgs[i], n)

\* The loop over g.peerPackages: the first package that has the name.
RECURSIVE searchPeerFrom(_, _, _)
searchPeerFrom(pkgs, n, i) ==
    IF i > Len(pkgs)
    THEN NoType
    ELSE IF PkgType(pkgs[i], n) # NoType
         THEN PkgType(pkgs[i], n)
         ELSE searchPeerFrom(pkgs, n, i + 1)

\* A resolver that caches only the peers it found.
getPeerTypeForFoundOnly(t, cache) ==
    LET n == universe[t].name
        found == searchPeerFrom(opts.peerPackages, peerNameOf(t), 1)
    IN IF cache[n] # NotCached /\ cache[n] # NoType
       THEN [peer |-> cache[n], cache |-> cache, searched |-> FALSE]
       ELSE [peer |-> found, cache |-> [cache EXCEPT ![n] = found], searched |-> TRUE]

\* GetPeerTypeFor on cache `cache`: the peer, the cache afterwards, and whether
\* the peer packages were searched.
getPeerTypeFor(t, cache) ==
    LET n == universe[t].name
        found == searchPeerFrom(opts.peerPackages, peerNameOf(t), 1)
    IN IF cache[n] # NotCached
       THEN [peer |-> cache[n], cache |-> cache, searched |-> FALSE]
       ELSE [peer |-> found, cache |-> [cache EXCEPT ![n] = found], searched |-> TRUE]

HomeNames == {Universe[t].name : t \in HomeTypes}

(***************************************************************************)
(* The state machine.                                                      *)
(***************************************************************************)
\* The home package's types in the order the driver walks them.
Order == <<"home.A", "home.B", "home.Bee", "home.C", "home.D">>

Configurations ==
    [missing : HandlerModes, inconv : HandlerModes, unsupp : HandlerModes,
     ext : ExternalModes, noUnsafe : BOOLEAN, peerPackages : PeerPackageLists]

\* Every handler unset, unsafe conversions allowed.
DefaultConfigurations ==
    {c \in Configurations :
        /\ c.missing = "unset" /\ c.inconv = "unset" /\ c.unsupp = "unset" /\ c.ext = "unset"
        /\ ~c.noUnsafe}

\* customCLIArgs, as the flags fill it.
CLIArgs ==
    [noUnsafeConversions : BOOLEAN,
     basePeerPackages : PeerPackageLists \cup {<<>>},
     noPublicConversionFunctionOnError : BOOLEAN]

\* The options NewConverterFromCLIFlags starts from: no handler, unsafe
\* conversions allowed, no base peer package.
DefaultOptions ==
    [missing |-> "unset", inconv |-> "unset", unsupp |-> "unset", ext |-> "unset",
     noUnsafe |-> FALSE, peerPackages |-> <<>>]

\* customCLIArgs.populateOptions: the error flag installs ErrorMissingFieldHandler
\* and ErrorInconvertibleFieldsHandler, and leaves the two other handlers alone.
populateOptions(ca, options) ==
    [options EXCEPT
        !.noUnsafe = IF ca.noUnsafeConversions THEN TRUE ELSE @,
        !.peerPackages = IF Len(ca.basePeerPackages) # 0 THEN ca.basePeerPackages ELSE @,
        !.missing = IF ca.noPublicConversionFunctionOnError THEN "err" ELSE @,
        !.inconv = IF ca.noPublicConversionFunctionOnError THEN "err" ELSE @]

Fresh ==
    /\ universe = TypeGraph
    /\ peerTypes = [n \in HomeNames |-> NotCached]
    /\ lookups = [n \in HomeNames |-> 0]
    /\ searches = [n \in HomeNames |-> 0]
    /\ filtered = 0
    /\ accepted = {}
    /\ generated = <<>>
    /\ trace = <<>>
    /\ results = <<>>
    /\ ret = [op |-> "", t |-> NoType, val |-> ""]

Init == opts \in Configurations /\ Fresh

InitPeers == opts \in DefaultConfigurations /\ Fresh

(***************************************************************************)
(* NewConversionGenerator: loading the packages, scanning them for manual  *)
(* conversion functions.                                                  *)
(***************************************************************************)
\* The package paths a generator can be configured with.
PackagePaths == {"home", "p1", "p2", "gone"}

\* What a scanned package can hold of functions that are named like a
\* conversion function and have the wrong signature, in source order.
MalformedLists == {<<>>, <<"Convert_a_To_b">>, <<"Convert_a_To_b", "Convert_c_To_d">>}

NoError == [kind |-> "", pkg |-> "", functions |-> <<>>]

\* getPackage: the package of the universe, else the one AddDirectory loads;
\* TRUE when there is a package, FALSE when there is an error.
getPackage(loadable, pkgPath) == pkgPath \in loadable

\* ManualConversionsTracker.findManualConversionFunctions: one error for each
\* malformed function of the package, one error when it cannot be loaded.
trackerFindManualConversionFunctions(loadable, malformed, packagePath) ==
    IF ~getPackage(loadable, packagePath)
    THEN <<"unable to load package">>
    ELSE malformed[packagePath]

\* A scan that logs what it finds and goes on.
findManualConversionFunctionsLenient(loadable, malformed, packagePaths, i) == NoError

\* findManualConversionFunctions, from the i-th path on: the first package
\* with errors ends the scan, and its errors make the message.
RECURSIVE findManualConversionFunctionsFrom(_, _, _, _)
findManualConversionFunctionsFrom(loadable, malformed, packagePaths, i) ==
    IF i > Len(packagePaths)
    THEN NoError
    ELSE LET errors == trackerFindManualConversionFunctions(loadable, malformed, packagePaths[i])
         IN IF Len(errors) # 0
            THEN [kind |-> "manual", pkg |-> packagePaths[i], functions |-> errors]
            ELSE findManualConversionFunctionsFrom(loadable, malformed, packagePaths, i + 1)

findManualConversionFunctions(loadable, malformed, packagePaths) ==
    findManualConversionFunctionsFrom(loadable, malformed, packagePaths, 1)

\* NewConversionGenerator(context, _, typesPackage, outputPackage, peerPackages, _):
\* the generator (TRUE) or nil, and the error.
newConversionGenerator(loadable, malformed, typesPackage, outputPackage, peerPackages) ==
    IF ~getPackage(loadable, typesPackage)
    THEN [generator |-> FALSE, err |-> [kind |-> "load", pkg |-> typesPackage, functions |-> <<>>]]
    ELSE IF ~getPackage(loadable, outputPackage)
    THEN [generator |-> FALSE, err |-> [kind |-> "load", pkg |-> outputPackage, functions |-> <<>>]]
    ELSE LET err == findManualConversionFunctions(loadable, malformed,
                        peerPackages \o <<outputPackage, typesPackage>>)
         IN IF err # NoError
            THEN [generator |-> FALSE, err |-> err]
            ELSE [generator |-> TRUE, err |-> NoError]

(***************************************************************************)
(* Converter.packages: one output package for each input package.          *)
(***************************************************************************)
\* The longest list of inputs.
MaxInputs == 4

\* The paths given as inputs; "gone" has no package in the universe.
InputPaths == {"home", "p1", "gone"}

Inputs == UNION {[1..n -> InputPaths] : n \in 0..MaxInputs}

\* c.Options.GeneratorOptions.ManualConversionsTracker when packages is
\* called: nil, or the tracker the caller has set.
TrackerOptions == {"nil", "set by the caller"}

\* generator.NewManualConversionsTracker()
NewManualConversionsTracker == "made by packages"

\* A driver that builds a package for every input, repeated or not.
RECURSIVE packagesFromKeepsDuplicates(_, _, _, _, _, _)
packagesFromKeepsDuplicates(inputs, i, processed, malformed, tracker, packages) ==
    IF i > Len(inputs)
    THEN [fatal |-> FALSE, packages |-> packages]
    ELSE IF inputs[i] \notin Packages
    THEN packagesFromKeepsDuplicates(inputs, i + 1, processed \cup {inputs[i]}, malformed,
                                     tracker, packages)
    ELSE LET built == newConversionGenerator(Packages, malformed, inputs[i], inputs[i],
                                             opts.peerPackages)
         IN IF ~built.generator
            THEN [fatal |-> TRUE, packages |-> <<>>]
            ELSE packagesFromKeepsDuplicates(inputs, i + 1, processed \cup {inputs[i]},
                     malformed, tracker,
                     Append(packages, [PackagePath |-> inputs[i],
                                       typesPackage |-> inputs[i],
                                       outputPackage |-> inputs[i],
                                       tracker |-> tracker]))

\* The loop over context.Inputs, from the i-th input on. An error of
\* NewConversionGenerator ends the process (klog.Fatalf).
RECURSIVE packagesFrom(_, _, _, _, _, _)
packagesFrom(inputs, i, processed, malformed, tracker, packages) ==
    IF i > Len(inputs)
    THEN [fatal |-> FALSE, packages |-> packages]
    ELSE IF inputs[i] \in processed
    THEN packagesFrom(inputs, i + 1, processed, malformed, tracker, packages)
    ELSE IF inputs[i] \notin Packages
    THEN packagesFrom(inputs, i + 1, processed \cup {inputs[i]}, malformed, tracker, packages)
    ELSE LET built == newConversionGenerator(Packages, malformed, inputs[i], inputs[i],
                                             opts.peerPackages)
         IN IF ~built.generator
            THEN [fatal |-> TRUE, packages |-> <<>>]
            ELSE packagesFrom(inputs, i + 1, processed \cup {inputs[i]}, malformed, tracker,
                     Append(packages, [PackagePath |-> inputs[i],
                                       typesPackage |-> inputs[i],
                                       outputPackage |-> inputs[i],
                                       tracker |-> tracker]))

\* Converter.packages: the tracker is made once, before the loop, unless the
\* options hold one.
packages(inputs, malformed, tracker) ==
    packagesFrom(inputs, 1, {}, malformed,
                 IF tracker = "nil" THEN NewManualConversionsTracker ELSE tracker,
                 <<>>)

\* A run from the command line: the options are what the flags make of the defaults.
InitCLI == opts \in {populateOptions(ca, DefaultOptions) : ca \in CLIArgs} /\ Fresh

\* The bookkeeping of one GetPeerTypeFor call (result g) on type t.
Looked(t, g) ==
    /\ peerTypes' = g.cache
    /\ lookups' = [lookups EXCEPT ![universe[t].name] = @ + 1]
    /\ searches' = IF g.searched THEN [searches EXCEPT ![universe[t].name] = @ + 1] ELSE searches

\* A direct call of the exported GetPeerTypeFor, on any type of the home package.
GetPeerTypeFor(t) ==
    LET g == getPeerTypeFor(t, peerTypes)
    IN /\ lookups[universe[t].name] < MaxLookups
       /\ Looked(t, g)
       /\ ret' = [op |-> "GetPeerTypeFor", t |-> t, val |-> g.peer]
       /\ UNCHANGED <<universe, opts, filtered, accepted, generated, trace, results>>

\* Converter.packages builds the generator of the home package, which is both
\* the types package and the output package.
NewConversionGenerator(loadable, malformed) ==
    /\ ret.op = ""
    /\ ret' = [op |-> "NewConversionGenerator",
               t |-> [loadable |-> loadable, malformed |-> malformed],
               val |-> newConversionGenerator(loadable, malformed, HomePkg, HomePkg,
                                              opts.peerPackages)]
    /\ UNCHANGED <<universe, opts, peerTypes, lookups, searches, filtered, accepted,
                   generated, trace, results>>

\* gengo calls Converter.packages once, with the inputs of the run.
ConverterPackages(inputs, malformed, tracker) ==
    /\ ret.op = ""
    /\ ret' = [op |-> "packages",
               t |-> [inputs |-> inputs, malformed |-> malformed, tracker |-> tracker],
               val |-> packages(inputs, malformed, tracker)]
    /\ UNCHANGED <<universe, opts, peerTypes, lookups, searches, filtered, accepted,
                   generated, trace, results>>

\* The driver asks Filter for every type of the home package, in Order.
Filter(t) ==
    LET g == getPeerTypeFor(t, peerTypes)
        ok == g.peer # NoType /\ convertibleOnlyWithinPackage(t, g.peer)
    IN /\ filtered < Len(Order)
       /\ t = Order[filtered + 1]
       /\ Looked(t, g)
       /\ filtered' = filtered + 1
       /\ accepted' = IF ok THEN accepted \cup {t} ELSE accepted
       /\ ret' = [op |-> "Filter", t |-> t, val |-> IF ok THEN "true" ELSE "false"]
       /\ UNCHANGED <<universe, opts, generated, trace, results>>

InSeq(x, s) == \E i \in 1..Len(s) : s[i] = x

\* The driver calls GenerateType once for each type Filter kept.
GenerateType(t) ==
    LET g == getPeerTypeFor(t, peerTypes)
        there == generateConversion(t, g.peer)
        back == generateConversion(g.peer, t)
    IN /\ filtered = Len(Order)
       /\ t \in accepted
       /\ ~InSeq(t, generated)
       /\ Len(generated) < MaxGenerate
       /\ Looked(t, g)
       /\ generated' = Append(generated, t)
       /\ trace' = trace \o <<there.ev, back.ev>>
       /\ results' = results \o <<[in |-> t, out |-> g.peer, errors |-> there.errs],
                                 [in |-> g.peer, out |-> t, errors |-> back.errs]>>
       /\ ret' = [op |-> "GenerateType", t |-> t, val |-> "nil"]
       /\ UNCHANGED <<universe, opts, filtered, accepted>>

Next ==
    \E t \in HomeTypes :
        \/ Filter(t)
        \/ GenerateType(t)

Spec == Init /\ [][Next]_vars

SpecCLI == InitCLI /\ [][Next]_vars

\* The construction alone, on every combination of loadable packages and of
\* malformed functions in them.
NextNew ==
    \E loadable \in SUBSET PackagePaths, malformed \in [PackagePaths -> MalformedLists] :
        NewConversionGenerator(loadable, malformed)

SpecNew == InitPeers /\ [][NextNew]_vars

\* The driver's loop alone, on every list of inputs.
NextPackages ==
    \E inputs \in Inputs, malformed \in [PackagePaths -> {<<>>, <<"Convert_a_To_b">>}],
       tracker \in TrackerOptions :
        ConverterPackages(inputs, malformed, tracker)

SpecPackages == InitPeers /\ [][NextPackages]_vars

\* The resolver alone, called in any order by the driver and by wrapper generators.
NextPeers ==
    \E t \in HomeTypes :
        \/ GetPeerTypeFor(t)
        \/ Filter(t)

SpecPeers == InitPeers /\ [][NextPeers]_vars

(***************************************************************************)
(* What the claims talk about: trace[k] is what the k-th generateConversion *)
(* call wrote and logged, results[k] the pair it was called on and the     *)
(* field errors it collected.                                              *)
(***************************************************************************)
Calls == 1..Len(results)

Count(evs, op) == Cardinality({i \in 1..Len(evs) : evs[i].op = op})

HasPublic(k) == \E i \in 1..Len(trace[k]) : trace[k][i].op = "public"

\* The tracker's entries, read off the table without going through preexists.
HasManual(a, b) == \E c \in conversionFunctions : c.in = a /\ c.out = b

HasNoPublicTag(t) == \E i \in 1..Len(universe[t].tags) : universe[t].tags[i] = TagNoPublic

\* C1: a generateConversion call writes the public function exactly when the
\* tracker has no function for the pair, neither type carries the no-public
\* tag, and the private function's generation returned no field error.
C1_PublicIff ==
    \A k \in Calls :
        HasPublic(k) <=>
            /\ ~HasManual(results[k].in, results[k].out)
            /\ ~HasNoPublicTag(results[k].in)
            /\ ~HasNoPublicTag(results[k].out)
            /\ Len(results[k].errors) = 0

\* One run shows a public function and each of the three ways to lose it alone.
C1_Witness ==
    /\ \E k \in Calls : HasPublic(k)
    /\ \E k \in Calls :
          /\ ~HasPublic(k) /\ HasManual(results[k].in, results[k].out)
          /\ ~HasNoPublicTag(results[k].in) /\ ~HasNoPublicTag(results[k].out)
          /\ Len(results[k].errors) = 0
    /\ \E k \in Calls :
          /\ ~HasPublic(k) /\ ~HasManual(results[k].in, results[k].out)
          /\ HasNoPublicTag(results[k].in) \/ HasNoPublicTag(results[k].out)
          /\ Len(results[k].errors) = 0
    /\ \E k \in Calls :
          /\ ~HasPublic(k) /\ ~HasManual(results[k].in, results[k].out)
          /\ ~HasNoPublicTag(results[k].in) /\ ~HasNoPublicTag(results[k].out)
          /\ Len(results[k].errors) > 0

\* The index of the closing brace of the k-th private function (0 when absent).
CloseAt(k) ==
    LET at == {i \in 1..Len(trace[k]) : trace[k][i].op = "close"}
    IN IF at = {} THEN 0 ELSE CHOOSE i \in at : TRUE

\* C2: every generateConversion call writes the private function of its pair
\* exactly once and to its closing brace, whatever the tracker, the no-public
\* tag and the field errors say; a public function, when written, comes right
\* after that closing brace and nothing is written after it.
C2_PrivateAlways ==
    /\ Len(trace) = Len(results)
    /\ Len(results) = 2 * Len(generated)
    /\ \A k \in Calls :
          LET evs == trace[k]
              pair(e) == e.a = results[k].in /\ e.b = results[k].out
          IN /\ Count(evs, "sig") = 1 /\ Count(evs, "close") = 1
             /\ evs[1].op = "sig" /\ pair(evs[1])
             /\ pair(evs[CloseAt(k)])
             /\ CloseAt(k) >= Len(evs) - 1
             /\ \A i \in 1..Len(evs) :
                   evs[i].op \in {"public", "logError"} => i = CloseAt(k) + 1 /\ pair(evs[i])

\* Private functions written in full for a pair with a manual function, for a
\* pair with field errors, for a no-public pair, and one followed by its
\* public function.
C2_Witness ==
    /\ C2_PrivateAlways
    /\ \E k \in Calls : HasManual(results[k].in, results[k].out) /\ CloseAt(k) = Len(trace[k])
    /\ \E k \in Calls : Len(results[k].errors) > 0 /\ CloseAt(k) = Len(trace[k]) - 1
    /\ \E k \in Calls : HasNoPublicTag(results[k].in) /\ CloseAt(k) = Len(trace[k])
    /\ \E k \in Calls : HasPublic(k) /\ trace[k][Len(trace[k])].op = "public"

\* A handler event whose callback returned an error.
ReturnedError(e) ==
    /\ e.op = "handler"
    /\ \/ e.f = "Missing" /\ opts.missing = "err"
       \/ e.f = "Inconvertible" /\ opts.inconv = "err"
       \/ e.f = "Unsupported" /\ opts.unsupp = "err"
       \/ e.f = "External" /\ opts.ext = "err"

HandlerFailed(k) == \E i \in 1..Len(trace[k]) : ReturnedError(trace[k][i])

\* C3: when a handler returned an error anywhere during the generation of a
\* private function, inside a Pointer, Slice or Map member included, the
\* private function is written in full and its public function is not.
C3_ErrorSuppressesPublic ==
    \A k \in Calls : HandlerFailed(k) => CloseAt(k) # 0 /\ ~HasPublic(k)

\* How often the segments of the trace hold an event op for the pair (a, b).
Emitted(op, a, b) ==
    Cardinality(UNION {{<<k, i>> : i \in {j \in 1..Len(trace[k]) :
                                              /\ trace[k][j].op = op
                                              /\ trace[k][j].a = a
                                              /\ trace[k][j].b = b}} : k \in Calls})

\* C4: after any sequence of GenerateType calls, no ordered pair has more than
\* one private and more than one public function.
C4_OneDefinitionPerPair ==
    \A k \in Calls :
        /\ Emitted("sig", results[k].in, results[k].out) <= 1
        /\ Emitted("public", results[k].in, results[k].out) <= 1

\* The name a peer lookup for t goes by: the value of the peerName option when
\* t has one and it is not empty, else t's own simple name.
EffectiveName(t) ==
    LET tags == Universe[t].tags
        named == {i \in 1..Len(tags) : Len(tags[i]) = 2 /\ tags[i][1] = "peerName"}
        first == CHOOSE i \in named : \A j \in named : i <= j
    IN IF named # {} /\ tags[first][2] # "" THEN tags[first][2] ELSE Universe[t].name

Holds(pkg, n) == \E id \in Parsed : Universe[id].pkg = pkg /\ Universe[id].name = n

\* The type of that name in the first peer package, in list order, that holds one.
ExpectedPeer(t) ==
    LET pkgs == opts.peerPackages
        n == EffectiveName(t)
        holding == {i \in 1..Len(pkgs) : Holds(pkgs[i], n)}
        first == CHOOSE i \in holding : \A j \in holding : i <= j
    IN IF holding = {}
       THEN NoType
       ELSE CHOOSE id \in Parsed : Universe[id].pkg = pkgs[first] /\ Universe[id].name = n

\* C5: GetPeerTypeFor(t) returns the type called by t's effective name in the
\* first peer package, in list order, that holds such a type, and no type at
\* all when none does.
C5_PeerIsFirstMatch ==
    ret.op = "GetPeerTypeFor" => ret.val = ExpectedPeer(ret.t)

\* A lookup answered from the second package of the list for a renamed type,
\* with another name recorded as having no peer.
C5_Witness ==
    /\ ret = [op |-> "GetPeerTypeFor", t |-> "home.B", val |-> "p2.Bee"]
    /\ opts.peerPackages = <<"p1", "p2">>
    /\ peerTypes["A"] = "p1.A"
    /\ peerTypes["C"] = NoType

\* C6: the peer cache only grows. A name gets its entry at its first lookup,
\* not-found included; from then on the entry never changes, the packages are
\* not searched again for the name, and every lookup returns the entry.
C6_CacheOnlyGrows ==
    /\ [](\A n \in HomeNames :
             /\ searches[n] <= 1
             /\ peerTypes[n] = NotCached <=> lookups[n] = 0)
    /\ [][\A n \in HomeNames :
             peerTypes[n] # NotCached =>
                /\ peerTypes'[n] = peerTypes[n]
                /\ searches'[n] = searches[n]
                /\ lookups'[n] > lookups[n] /\ ret'.op = "GetPeerTypeFor" =>
                      ret'.val = peerTypes[n]]_vars

\* A name looked up twice, searched once, and recorded as having no peer.
C6_Witness ==
    /\ lookups["C"] = 2 /\ searches["C"] = 1
    /\ peerTypes["C"] = NoType
    /\ ret = [op |-> "GetPeerTypeFor", t |-> "home.C", val |-> NoType]

\* What the k-th call wrote, logged and consulted for the source member n, and
\* the field errors it collected for it.
MemberEvents(k, n) ==
    LET ofMember(e) == e.m = n
    IN SelectSeq(trace[k], ofMember)

MemberErrors(k, n) ==
    LET ofMember(e) == e.m = n
    IN SelectSeq(results[k].errors, ofMember)

Ops(evs) == {evs[i].op : i \in 1..Len(evs)}

\* The members of the source type of the k-th call (none unless it is a struct).
SourceMembers(k) ==
    IF Universe[results[k].in].kind = "Struct" THEN Universe[results[k].in].members ELSE <<>>

\* The target members called n.
TargetMembers(k, n) ==
    IF Universe[results[k].out].kind # "Struct"
    THEN {}
    ELSE {i \in 1..Len(Universe[results[k].out].members) :
             Universe[results[k].out].members[i].name = n}

IsOptedOut(member) == \E i \in 1..Len(member.tags) : member.tags[i] = TagFalse

\* What the missing-member branch has to do for the i-th source member of the
\* k-th call.
MissingHandled(k, i) ==
    LET ms == SourceMembers(k)
        evs == MemberEvents(k, ms[i].name)
        errs == MemberErrors(k, ms[i].name)
    IN /\ opts.missing = "unset" =>
            /\ Len(evs) = 1 /\ evs[1].op = "warn" /\ evs[1].f = "missing"
            /\ errs = <<>>
       /\ opts.missing = "err" =>
            /\ Len(errs) = 1 /\ errs[1].handler = "Missing"
            /\ Ops(evs) \cap StatementOps = {}
            /\ ~HasPublic(k)
       /\ CloseAt(k) # 0
       /\ \A j \in (i + 1)..Len(ms) : MemberEvents(k, ms[j].name) # <<>>

\* C7 as the specification words it: every source member without a same-named
\* member in the target gets the missing-member treatment.
C7_AnyMissingMember ==
    \A k \in Calls : \A i \in 1..Len(SourceMembers(k)) :
        TargetMembers(k, SourceMembers(k)[i].name) = {} => MissingHandled(k, i)

\* C7: a source member that is not opted out and has no same-named member in
\* the target gets, with MissingFieldsHandler unset, one warning, no statement
\* and no field error; with a handler that returns an error, exactly one field
\* error and no public function. Either way the private function is written
\* in full and the members after it are processed.
C7_MissingMember ==
    \A k \in Calls : \A i \in 1..Len(SourceMembers(k)) :
        /\ TargetMembers(k, SourceMembers(k)[i].name) = {}
        /\ ~IsOptedOut(SourceMembers(k)[i])
        => MissingHandled(k, i)

\* home.A -> p1.A with a failing handler: Extra is missing in p1.A, costs one
\* field error and the public function, and Drop after it is still processed.
C7_Witness ==
    /\ opts.missing = "err"
    /\ \E k \in Calls :
          /\ results[k].in = "home.A" /\ results[k].out = "p1.A"
          /\ TargetMembers(k, "Extra") = {}
          /\ Len(MemberErrors(k, "Extra")) = 1
          /\ MemberEvents(k, "Drop") # <<>>
          /\ ~HasPublic(k)

\* C8: a source member tagged "false" gets one marker comment and nothing
\* else: no statement, no handler call, no tracker or arbiter lookup, no field
\* error, whether or not the target has a member of that name.
C8_OptedOutMember ==
    \A k \in Calls : \A i \in 1..Len(SourceMembers(k)) :
        IsOptedOut(SourceMembers(k)[i]) =>
            /\ Len(MemberEvents(k, SourceMembers(k)[i].name)) = 1
            /\ MemberEvents(k, SourceMembers(k)[i].name)[1].op = "comment"
            /\ MemberErrors(k, SourceMembers(k)[i].name) = <<>>

\* home.A -> p1.A with a failing MissingFieldsHandler: Skip is in p1.A, Gone is
\* not, both are opted out.
C8_Witness ==
    /\ opts.missing = "err"
    /\ \E k \in Calls :
          /\ results[k].in = "home.A" /\ results[k].out = "p1.A"
          /\ TargetMembers(k, "Skip") # {} /\ TargetMembers(k, "Gone") = {}
          /\ Ops(MemberEvents(k, "Skip")) = {"comment"}
          /\ Ops(MemberEvents(k, "Gone")) = {"comment"}

\* The manual functions tagged "drop".
DropFunctions == {c \in conversionFunctions : "drop" \in c.tags}

\* C9: a member whose (source member type, target member type) pair has a
\* manual function tagged "drop" yields no code of any kind (no assignment,
\* call, cast, raw reinterpretation or comment), no handler call and no field
\* error.
C9_DroppedMemberSilent ==
    \A k \in Calls : \A i \in 1..Len(SourceMembers(k)) :
        LET member == SourceMembers(k)[i]
            dropped == \E j \in TargetMembers(k, member.name) : \E c \in DropFunctions :
                          /\ c.in = member.type
                          /\ c.out = Universe[results[k].out].members[j].type
        IN ~IsOptedOut(member) /\ dropped =>
              /\ Ops(MemberEvents(k, member.name)) \cap (CodeOps \cup {"handler"}) = {}
              /\ MemberErrors(k, member.name) = <<>>

\* C10: no call written anywhere (struct members, slice elements, map values,
\* pointer pointees) calls a manual function tagged "drop".
C10_NoCallToDropped ==
    \A k \in Calls : \A i \in 1..Len(trace[k]) :
        trace[k][i].op = "callManual" => ~\E c \in DropFunctions : c.fn = trace[k][i].f

\* The target member the i-th source member of the k-th call is converted to.
TargetMember(k, i) ==
    LET hits == TargetMembers(k, SourceMembers(k)[i].name)
    IN Universe[results[k].out].members[CHOOSE j \in hits : \A h \in hits : j <= h]

\* The source members of the k-th call that reach the conversion proper.
Converted(k) ==
    {i \in 1..Len(SourceMembers(k)) :
        /\ ~IsOptedOut(SourceMembers(k)[i])
        /\ TargetMembers(k, SourceMembers(k)[i].name) # {}}

\* The manual functions tagged "copy-only" (and not "drop").
CopyOnlyFunctions == {c \in conversionFunctions : "copy-only" \in c.tags /\ "drop" \notin c.tags}

HasCopyOnly(k, i) ==
    \E c \in CopyOnlyFunctions :
        c.in = SourceMembers(k)[i].type /\ c.out = TargetMember(k, i).type

\* The arbiter's and the fast-conversion test's answers for the member's types,
\* as doStruct asks for them (on the copies, for alias members).
LayoutEquivalent(k, i) ==
    canUseUnsafeConversion(CopyId(SourceMembers(k)[i].type, "in"),
                           CopyId(TargetMember(k, i).type, "out"))

Fast(k, i) ==
    isFastConversion(CopyId(SourceMembers(k)[i].type, "in"),
                     CopyId(TargetMember(k, i).type, "out"))

MemberOps(k, i) == Ops(MemberEvents(k, SourceMembers(k)[i].name))

\* C11 as the specification words it: a copy-only function is called only for
\* layout-equivalent member types, and not called when they are not.
C11_CalledOnlyWhenEquivalent ==
    \A k \in Calls : \A i \in Converted(k) :
        HasCopyOnly(k, i) =>
            /\ "callManual" \in MemberOps(k, i) => LayoutEquivalent(k, i)
            /\ ~LayoutEquivalent(k, i) => MemberOps(k, i) \cap {"assign", "conv", "callInternal", "handler", "warn"} # {}

\* C11: a copy-only manual function is called for a member exactly when no fast
\* conversion (a direct assignment) of the member's types exists and the raw
\* reinterpretation was not written; when a fast conversion exists the
\* function is not called and the member gets the plain assignment or cast of
\* the field-level logic.
C11_CalledUnlessFast ==
    \A k \in Calls : \A i \in Converted(k) :
        HasCopyOnly(k, i) =>
            /\ "callManual" \in MemberOps(k, i) <=>
                   ~Fast(k, i) /\ "unsafe" \notin MemberOps(k, i)
            /\ Fast(k, i) /\ "unsafe" \notin MemberOps(k, i) =>
                   MemberOps(k, i) \cap {"assign", "conv"} # {}

\* home.D -> p1.D: Code (aliases of int) is cast without a call, Diff (structs
\* of different layouts) gets the call.
C11_Witness ==
    \E k \in Calls :
        /\ results[k].in = "home.D" /\ results[k].out = "p1.D"
        /\ Ops(MemberEvents(k, "Code")) = {"preexists", "conv"}
        /\ "callManual" \in Ops(MemberEvents(k, "Diff"))
        /\ ~canUseUnsafeConversion("lib.ItemC", "p1.ItemC")

\* C12 as the specification words it: layout-equivalent member types with a
\* copy-only function get a plain copy and no call.
C12_EquivalentNotCalled ==
    \A k \in Calls : \A i \in Converted(k) :
        HasCopyOnly(k, i) /\ LayoutEquivalent(k, i) =>
            /\ "callManual" \notin MemberOps(k, i)
            /\ MemberOps(k, i) \cap {"assign", "conv", "unsafe"} # {}

\* C12: when a fast conversion (a direct assignment) of the member's types
\* exists, a copy-only manual function is not called: the member gets exactly
\* one statement, a plain assignment or cast, no handler call and no field
\* error.
C12_FastNotCalled ==
    \A k \in Calls : \A i \in Converted(k) :
        HasCopyOnly(k, i) /\ Fast(k, i) /\ "unsafe" \notin MemberOps(k, i) =>
            LET evs == MemberEvents(k, SourceMembers(k)[i].name)
                code(e) == e.op \in CodeOps
            IN /\ Len(SelectSeq(evs, code)) = 1
               /\ SelectSeq(evs, code)[1].op \in {"assign", "conv"}
               /\ MemberOps(k, i) \cap {"callManual", "handler", "warn"} = {}
               /\ MemberErrors(k, SourceMembers(k)[i].name) = <<>>

\* home.D -> p1.D: Code has a copy-only function and a fast conversion; its
\* copy is the cast alone.
C12_Witness ==
    \E k \in Calls :
        /\ results[k].in = "home.D" /\ results[k].out = "p1.D"
        /\ \E c \in CopyOnlyFunctions : c.in = "lib.Code" /\ c.out = "p1.Code"
        /\ isFastConversion("in copy of lib.Code", "out copy of p1.Code")
        /\ Ops(MemberEvents(k, "Code")) \cap CodeOps = {"conv"}

\* The manual functions that are neither dropped nor copy-only.
PlainFunctions == {c \in conversionFunctions : c.tags \cap {"drop", "copy-only"} = {}}

\* The function of that set registered for the i-th member's type pair, if any.
PlainFor(k, i) ==
    {c \in PlainFunctions : c.in = SourceMembers(k)[i].type /\ c.out = TargetMember(k, i).type}

SiteOps(k, j) ==
    {trace[k][h].op : h \in {g \in 1..Len(trace[k]) :
                                /\ trace[k][g].m = trace[k][j].m
                                /\ trace[k][g].a = trace[k][j].a
                                /\ trace[k][g].b = trace[k][j].b}}

\* The j-th event of the k-th call is the allocation of a slice (or map) whose
\* element types are one and the same builtin type.
AllocatesBuiltins(k, j, kind) ==
    LET e == trace[k][j]
    IN /\ e.op = "make"
       /\ universe[e.a].kind = kind /\ universe[e.b].kind = kind
       /\ universe[e.a].elem = universe[e.b].elem
       /\ universe[universe[e.a].elem].kind = "Builtin"

\* C14 as the specification words it: slices and maps of identical builtin
\* elements are converted by one bulk copy, without a loop.
C14_BulkCopyBoth ==
    \A k \in Calls : \A j \in 1..Len(trace[k]) :
        AllocatesBuiltins(k, j, "Slice") \/ AllocatesBuiltins(k, j, "Map") =>
            "copy" \in SiteOps(k, j) /\ "loop" \notin SiteOps(k, j)

\* C14: a slice pair whose element types are the identical builtin type is
\* converted by the allocation and one bulk copy, without a loop. A map pair
\* always gets a loop over its entries; with identical builtin keys and values
\* the loop body is one direct assignment.
C14_BulkCopySlices ==
    \A k \in Calls : \A j \in 1..Len(trace[k]) :
        /\ AllocatesBuiltins(k, j, "Slice") =>
              /\ trace[k][j + 1].op = "copy"
              /\ SiteOps(k, j) \cap {"loop", "stubloop"} = {}
        /\ AllocatesBuiltins(k, j, "Map") /\ universe[trace[k][j].a].key = universe[trace[k][j].b].key
              /\ universe[universe[trace[k][j].a].key].kind = "Builtin" =>
              /\ trace[k][j + 1].op = "loop"
              /\ trace[k][j + 2].op = "assign"
              /\ trace[k][j + 3].op = "end"

\* home.D -> p1.D with unsafe conversions off: Strs ([]string) is copied in
\* bulk, Dict (map[string]string) entry by entry.
C14_Witness ==
    \E k \in Calls :
        /\ results[k].in = "home.D" /\ results[k].out = "p1.D"
        /\ {"make", "copy"} \subseteq Ops(MemberEvents(k, "Strs"))
        /\ "loop" \notin Ops(MemberEvents(k, "Strs"))
        /\ {"make", "loop", "assign"} \subseteq Ops(MemberEvents(k, "Dict"))

\* Two Records with the same member names, in the same order, each pair of
\* members of one kind (an alias counting for what it names).
SameShape(a, b) ==
    /\ Universe[a].kind = "Struct" /\ Universe[b].kind = "Struct"
    /\ Len(Universe[a].members) = Len(Universe[b].members)
    /\ Len(Universe[a].members) > 0
    /\ \A i \in 1..Len(Universe[a].members) :
          /\ Universe[a].members[i].name = Universe[b].members[i].name
          /\ Universe[Underlying(Universe[a].members[i].type)].kind
                = Universe[Underlying(Universe[b].members[i].type)].kind

\* C15 as the specification words it: two Records of the same shape convert
\* without a field error and get their public function, whatever the handlers.
C15_SameShapeAlwaysPublic ==
    \A k \in Calls :
        SameShape(results[k].in, results[k].out) =>
            Len(results[k].errors) = 0 /\ HasPublic(k)

\* C15: for two Records of the same shape the only field errors are the ones
\* ExternalConversionsHandler returns for a member; when that handler is unset
\* or returns no error there is no field error, and the public function is
\* written unless the tracker has the pair or a type is tagged no-public.
C15_SameShapePublic ==
    \A k \in Calls :
        SameShape(results[k].in, results[k].out) =>
            /\ \A i \in 1..Len(results[k].errors) :
                  /\ results[k].errors[i].handler = "External"
                  /\ results[k].errors[i].m # ""
            /\ opts.ext # "err" =>
                  /\ Len(results[k].errors) = 0
                  /\ HasPublic(k) <=>
                        /\ ~HasManual(results[k].in, results[k].out)
                        /\ ~HasNoPublicTag(results[k].in)
                        /\ ~HasNoPublicTag(results[k].out)

\* home.D -> p1.D with the three other handlers failing and
\* ExternalConversionsHandler declining Far: no field error, a public function.
C15_Witness ==
    \E k \in Calls :
        /\ results[k].in = "home.D" /\ results[k].out = "p1.D"
        /\ SameShape(results[k].in, results[k].out)
        /\ opts.missing = "err" /\ opts.inconv = "err" /\ opts.unsupp = "err"
        /\ opts.ext = "declined"
        /\ "handler" \in Ops(MemberEvents(k, "Far"))
        /\ Len(results[k].errors) = 0
        /\ HasPublic(k)

\* The type carries the opt-out tag.
TypeOptedOut(t) == \E i \in 1..Len(universe[t].tags) : universe[t].tags[i] = TagFalse

\* The events that are a call of the generated function of another pair.
InternalCalls ==
    UNION {{trace[k][i] : i \in {j \in 1..Len(trace[k]) : trace[k][j].op = "callInternal"}} : k \in Calls}

\* The events that hand a pair to ExternalConversionsHandler, or warn for want of it.
Deferrals ==
    UNION {{trace[k][i] : i \in {j \in 1..Len(trace[k]) :
                                    \/ trace[k][j].op = "handler" /\ trace[k][j].f = "External"
                                    \/ trace[k][j].op = "warn" /\ trace[k][j].f = "external"}} : k \in Calls}

\* C16 as the specification words it: an internal call has two Records, one of
\* them of the home package, neither opted out, and an exported peer name.
C16_InternalCallBothRecords ==
    \A e \in InternalCalls :
        /\ universe[e.a].kind = "Struct" /\ universe[e.b].kind = "Struct"
        /\ universe[e.a].pkg = HomePkg \/ universe[e.b].pkg = HomePkg
        /\ ~TypeOptedOut(e.a) /\ ~TypeOptedOut(e.b)
        /\ ~universe[e.a].private /\ ~universe[e.b].private

\* What the generator asks of a pair: of the home package's type in it (the
\* source when both are) that it is a Record and not opted out, of the other
\* type that its name is exported.
HomeSide(a, b) == IF universe[a].pkg = HomePkg THEN a ELSE b

OtherSide(a, b) == IF universe[a].pkg = HomePkg THEN b ELSE a

HomeSideConvertible(a, b) ==
    /\ universe[HomeSide(a, b)].pkg = HomePkg
    /\ universe[HomeSide(a, b)].kind = "Struct"
    /\ ~TypeOptedOut(HomeSide(a, b))
    /\ ~universe[OtherSide(a, b)].private

\* C16: an internal call is emitted only for a pair with a type of the home
\* package that is a Record and not opted out, the other type's name being
\* exported (nothing else is asked of the other type); a pair handed to
\* ExternalConversionsHandler, or warned about, is not such a pair.
C16_InternalCallHomeSide ==
    /\ \A e \in InternalCalls : HomeSideConvertible(e.a, e.b)
    /\ \A e \in Deferrals : ~HomeSideConvertible(e.a, e.b)

\* home.D -> p1.D: Out is an internal call although p1.Out is opted out, Mix
\* one although p1.I is no Record, and Far (ext.X, p1.Y) is deferred.
C16_Witness ==
    \E k \in Calls :
        /\ results[k].in = "home.D"
        /\ \E i \in 1..Len(trace[k]) :
              /\ trace[k][i].op = "callInternal" /\ trace[k][i].m = "Out"
              /\ trace[k][i].a = "home.C" /\ trace[k][i].b = "p1.Out"
        /\ \E i \in 1..Len(trace[k]) :
              /\ trace[k][i].op = "callInternal" /\ trace[k][i].m = "Mix"
              /\ trace[k][i].a = "home.C" /\ trace[k][i].b = "p1.I"
        /\ \E i \in 1..Len(trace[k]) :
              /\ trace[k][i] \in Deferrals /\ trace[k][i].m = "Far"
              /\ trace[k][i].a = "ext.X" /\ trace[k][i].b = "p1.Y"

\* The positions of the k-th call's events that are an unsafe pointer cast.
UnsafeAt(k) == {i \in 1..Len(trace[k]) : trace[k][i].op = "unsafe"}

\* C17: an unsafe pointer cast is written for a member only when
\* NoUnsafeConversions is false and the arbitrator, asked just before about the
\* member's type pair, answered true; with NoUnsafeConversions true no function
\* has an unsafe cast and the arbitrator is not even asked.
C17_UnsafeOnlyWhenProved ==
    /\ \A k \in Calls : \A i \in UnsafeAt(k) :
          /\ ~opts.noUnsafe
          /\ trace[k][i].m # ""
          /\ i > 1
          /\ trace[k][i - 1].op = "arbiter"
          /\ trace[k][i - 1].a = trace[k][i].a /\ trace[k][i - 1].b = trace[k][i].b
          /\ canUseUnsafeConversion(trace[k][i].a, trace[k][i].b)
    /\ opts.noUnsafe =>
          \A k \in Calls : \A i \in 1..Len(trace[k]) : trace[k][i].op \notin {"unsafe", "arbiter"}

\* home.D -> p1.D with unsafe conversions allowed: Strs ([]string on both
\* sides) is cast, Mix ([]home.C against []p1.I) was refused by the arbitrator
\* and is converted by a loop.
C17_Witness ==
    \E k \in Calls :
        /\ ~opts.noUnsafe
        /\ results[k].in = "home.D"
        /\ "unsafe" \in Ops(MemberEvents(k, "Strs"))
        /\ "arbiter" \in Ops(MemberEvents(k, "Mix"))
        /\ "unsafe" \notin Ops(MemberEvents(k, "Mix"))
        /\ "loop" \in Ops(MemberEvents(k, "Mix"))

\* The place of the member called n among the source members of the k-th call.
MemberIndex(k, n) ==
    CHOOSE i \in 1..Len(SourceMembers(k)) : SourceMembers(k)[i].name = n

WarnAt(k) == {i \in 1..Len(trace[k]) : trace[k][i].op = "warn"}

\* The event, if any, that follows the j-th event of the k-th call for the same
\* member: what was written next at that site.
WrittenNext(k, j) ==
    IF j < Len(trace[k]) /\ trace[k][j].m # "" /\ trace[k][j + 1].m = trace[k][j].m
    THEN {trace[k][j + 1].op}
    ELSE {}

\* The handler a warning stands in for is not set.
HandlerUnset(f) ==
    CASE f = "missing" -> opts.missing = "unset"
      [] f = "inconvertible" -> opts.inconv = "unset"
      [] f = "unsupported" -> opts.unsupp = "unset"
      [] OTHER -> opts.ext = "unset"

\* No field error and no handler call for the member and type pair of the
\* j-th event of the k-th call.
QuietAt(k, j) ==
    /\ \A i \in 1..Len(results[k].errors) :
          ~ /\ results[k].errors[i].m = trace[k][j].m
            /\ results[k].errors[i].a = trace[k][j].a
            /\ results[k].errors[i].b = trace[k][j].b
    /\ \A i \in 1..Len(trace[k]) :
          ~ /\ trace[k][i].op = "handler"
            /\ trace[k][i].m = trace[k][j].m
            /\ trace[k][i].a = trace[k][j].a
            /\ trace[k][i].b = trace[k][j].b

\* C19 as the specification words it: where a handler is not set there is a
\* warning, no field error, and nothing is written.
C19_UnsetWritesNothing ==
    \A k \in Calls : \A j \in WarnAt(k) :
        /\ HandlerUnset(trace[k][j].f)
        /\ QuietAt(k, j)
        /\ WrittenNext(k, j) \cap StatementOps \subseteq {"else"}

\* C19: where a handler is not set the generator logs a warning and goes on:
\* no field error, no handler call, no statement that converts anything. What
\* it still writes there is the placeholder `_ = i` of a slice loop and the
\* store of the fresh (zero) value of a map loop; a member of a struct, a
\* pointer's pointee and a type of unsupported kind get nothing.
C19_UnsetConvertsNothing ==
    /\ ret.op = "GenerateType" => ret.val = "nil"
    /\ \A k \in Calls : \A j \in WarnAt(k) :
          /\ HandlerUnset(trace[k][j].f)
          /\ QuietAt(k, j)
          /\ WrittenNext(k, j) \subseteq {"blank", "store", "else"}
          /\ trace[k][j].f # "external" => WrittenNext(k, j) = {}
          /\ "blank" \in WrittenNext(k, j) => trace[k][j - 2].op = "loop"
          /\ "store" \in WrittenNext(k, j) => trace[k][j - 2].op = "new"
          /\ universe[trace[k][j].a].kind = "Pointer" => WrittenNext(k, j) = {"else"}

\* No handler set, home.D -> p1.D with unsafe conversions allowed: Far warns and
\* writes nothing, Vals warns and stores the zero value; and the call that
\* converts the interface p1.B warns about the unsupported kind.
C19_Witness ==
    /\ opts.missing = "unset" /\ opts.inconv = "unset"
    /\ opts.unsupp = "unset" /\ opts.ext = "unset"
    /\ \E k \in Calls :
          /\ results[k].in = "home.D"
          /\ Ops(MemberEvents(k, "Far")) = {"arbiter", "preexists", "warn"}
          /\ {"warn", "store"} \subseteq Ops(MemberEvents(k, "Vals"))
          /\ Len(results[k].errors) = 0
          /\ HasPublic(k)
    /\ \E k \in Calls :
          /\ results[k].in = "p1.B"
          /\ \E j \in WarnAt(k) : trace[k][j].f = "unsupported"

\* The positions in the k-th call where the allocation of a map is written
\* whose key types cannot be assigned to one another.
UnassignableKeysAt(k) ==
    {j \in 1..Len(trace[k]) :
        /\ trace[k][j].op = "make"
        /\ universe[trace[k][j].a].kind = "Map" /\ universe[trace[k][j].b].kind = "Map"
        /\ ~isDirectlyAssignable(universe[trace[k][j].a].key, universe[trace[k][j].b].key)}

\* The allocation at j is followed by the stub loop, its FIXME comment and the
\* closing brace, and by nothing else before the member's frame resumes.
StubLoopAt(k, j) ==
    /\ j + 3 <= Len(trace[k])
    /\ trace[k][j + 1].op = "stubloop"
    /\ trace[k][j + 2].op = "fixme"
    /\ trace[k][j + 2].a = universe[trace[k][j].a].key
    /\ trace[k][j + 2].b = universe[trace[k][j].b].key
    /\ trace[k][j + 3].op = "end"

\* Neither the keys nor the values of the map at j were taken to the tracker
\* or to a handler, and the member has no field error.
StubConsultsNothing(k, j) ==
    LET keys == <<universe[trace[k][j].a].key, universe[trace[k][j].b].key>>
        vals == <<universe[trace[k][j].a].elem, universe[trace[k][j].b].elem>>
    IN /\ \A i \in 1..Len(trace[k]) :
             /\ trace[k][i].m = trace[k][j].m
             /\ <<trace[k][i].a, trace[k][i].b>> \in {keys, vals}
             => trace[k][i].op = "fixme"
       /\ "handler" \notin Ops(MemberEvents(k, trace[k][j].m))
       /\ Len(MemberErrors(k, trace[k][j].m)) = 0

\* C20: for a map pair whose key types cannot be assigned the generator writes
\* the allocation and a stub loop that holds only a FIXME comment, records no
\* field error, calls no handler, asks the tracker about neither keys nor
\* values, and logs a warning.
C20_StubLoopWithWarning ==
    \A k \in Calls : \A j \in UnassignableKeysAt(k) :
        /\ StubLoopAt(k, j)
        /\ StubConsultsNothing(k, j)
        /\ "warn" \in Ops(MemberEvents(k, trace[k][j].m))

\* The run was started with no-public-conversion-function-on-error.
NoPublicOnError ==
    \E ca \in CLIArgs :
        /\ ca.noPublicConversionFunctionOnError
        /\ opts = populateOptions(ca, DefaultOptions)

\* The k-th call met something it could not convert: it warned for want of a
\* handler, or a handler returned an error.
Unconverted(k) ==
    \E i \in 1..Len(trace[k]) : trace[k][i].op = "warn" \/ ReturnedError(trace[k][i])

\* C21: with no-public-conversion-function-on-error, a pair with a field the
\* generator could not convert (missing, inconvertible, unsupported, or external
\* with nothing to provide it) gets its private function and no public one.
C21_FlagSuppressesPublic ==
    NoPublicOnError =>
        \A k \in Calls :
            Unconverted(k) =>
                /\ CloseAt(k) > 0
                /\ ~HasPublic(k)

\* What the k-th call wrote, logged and consulted between the signature and
\* the closing brace of the private function.
Body(k) == SubSeq(trace[k], 2, CloseAt(k) - 1)

\* C22: generation dispatched for an alias or for a type of a kind the
\* generator has no branch for writes nothing of its own: it calls
\* UnsupportedTypesHandler once when there is one, logs a warning when there
\* is none, and returns one field error when the handler returned an error,
\* none otherwise.
C22_AliasAndUnknownDefer ==
    \A k \in Calls :
        universe[results[k].in].kind \in {"Alias", "Interface"} =>
            /\ Len(Body(k)) = 1
            /\ Body(k)[1].a = results[k].in /\ Body(k)[1].b = results[k].out
            /\ opts.unsupp = "unset" => Body(k)[1].op = "warn" /\ Body(k)[1].f = "unsupported"
            /\ opts.unsupp # "unset" => Body(k)[1].op = "handler" /\ Body(k)[1].f = "Unsupported"
            /\ Len(results[k].errors) = (IF opts.unsupp = "err" THEN 1 ELSE 0)

\* The alias p2.B, peer of home.Bee, handed to a failing UnsupportedTypesHandler:
\* one call of it, one field error.
C22_Witness ==
    \E k \in Calls :
        /\ results[k].in = "p2.B" /\ universe[results[k].in].kind = "Alias"
        /\ opts.unsupp = "err"
        /\ Count(trace[k], "handler") = 1
        /\ Len(results[k].errors) = 1

\* Where the k-th call opens a nested generateFor call (doStruct shadows in and
\* out for it) and where it closes one (the else branch of the nil guard).
Opens(k) == {j \in 1..Len(trace[k]) : trace[k][j].op = "shadow"}

Closes(k) == {j \in 1..Len(trace[k]) : trace[k][j].op = "else"}

\* How many nested calls are open at position i, given where they open and close.
DepthAt(opens, closes, i) ==
    Cardinality({j \in opens : j <= i}) - Cardinality({j \in closes : j <= i})

Depth(k, i) == DepthAt(Opens(k), Closes(k), i)

\* The two generateConversion calls of the last GenerateType call (every call
\* is one of the last two of the state it leads to).
LastCalls == IF Len(generated) = 0 THEN {} ELSE {2 * Len(generated) - 1, 2 * Len(generated)}

\* C23: every GenerateType call returns with the two functions of its pair
\* written to their closing brace, self-referential Records included;
\* generateFor is never re-entered more than one level below the pair, and a
\* pair of Records met in a nested call is converted by a direct assignment or
\* a call, handed to ExternalConversionsHandler, warned about or left to a FIXME
\* comment, never expanded.
C23_OneLevelOfNesting ==
    /\ ret.op = "GenerateType" => ret.val = "nil" /\ Len(trace) = 2 * Len(generated)
    /\ \A k \in LastCalls :
          LET opens == Opens(k)
              closes == Closes(k)
          IN /\ CloseAt(k) > 0
             /\ \A i \in 1..Len(trace[k]) :
                   /\ DepthAt(opens, closes, i) \in {0, 1}
                   /\ /\ DepthAt(opens, closes, i) > 0
                      /\ universe[trace[k][i].a].kind = "Struct"
                      /\ universe[trace[k][i].b].kind = "Struct"
                      => trace[k][i].op \in {"assign", "conv", "preexists", "callManual",
                                             "callInternal", "handler", "warn", "blank",
                                             "new", "fixme"}

\* home.D, which holds a pointer to, a slice of and a map of itself, was
\* generated with unsafe conversions off: each of the three members is one
\* nested block with a call of the function of (home.D, p1.D) in it.
C23_Witness ==
    \E k \in Calls :
        /\ results[k].in = "home.D" /\ results[k].out = "p1.D"
        /\ opts.noUnsafe
        /\ CloseAt(k) > 0
        /\ \A n \in {"Self", "Kids", "ByName"} :
              /\ Count(MemberEvents(k, n), "shadow") = 1
              /\ \E i \in 1..Len(trace[k]) :
                    /\ trace[k][i].m = n /\ trace[k][i].op = "callInternal"
                    /\ trace[k][i].a = "home.D" /\ trace[k][i].b = "p1.D"
                    /\ Depth(k, i) = 1

\* The names of the tracker's extra arguments, in the tracker's order.
ExtraNames ==
    [i \in 1..Len(additionalConversionArguments) |-> additionalConversionArguments[i].name]

\* The names in what an event's text holds of the extra arguments, from
\* position `from` on, `n` of them.
NamesIn(e, from, n) == [i \in 1..n |-> e.x[from + i - 1][1]]

\* C24: every signature, private or public, declares the tracker's extra
\* arguments in the tracker's order, each with its type; the call the public
\* function makes and every call of a manual or generated function (from a
\* struct member, a slice element, a map value, a pointee) passes the same
\* names in the same order; nothing else carries extra arguments.
C24_ExtraArgumentsAgree ==
    LET n == Len(ExtraNames)
    IN \A k \in LastCalls : \A i \in 1..Len(trace[k]) :
          LET e == trace[k][i]
          IN CASE e.op = "sig" ->
                    /\ Len(e.x) = n /\ NamesIn(e, 1, n) = ExtraNames
                    /\ \A j \in 1..n : e.x[j] = <<additionalConversionArguments[j].name,
                                                  additionalConversionArguments[j].type>>
               [] e.op = "public" ->
                    /\ Len(e.x) = 2 * n
                    /\ NamesIn(e, 1, n) = ExtraNames
                    /\ NamesIn(e, n + 1, n) = ExtraNames
                    /\ \A j \in 1..n : Len(e.x[j]) = 2 /\ Len(e.x[n + j]) = 1
               [] e.op \in {"callManual", "callInternal"} -> e.x = ExtraNames
               [] OTHER -> e.x = <<>>

\* home.D -> p1.D with unsafe conversions off: a call from a struct member, a
\* slice element, a map value and a pointee, a manual call, and the public
\* function, all with the two extra arguments.
C24_Witness ==
    \E k \in Calls :
        /\ results[k].in = "home.D" /\ results[k].out = "p1.D"
        /\ opts.noUnsafe
        /\ HasPublic(k)
        /\ Len(ExtraNames) = 2
        /\ \A n \in {"Out", "Kids", "ByName", "Self"} :
              \E i \in 1..Len(trace[k]) :
                  /\ trace[k][i].m = n /\ trace[k][i].op = "callInternal"
                  /\ trace[k][i].x = ExtraNames
        /\ \E i \in 1..Len(trace[k]) :
              /\ trace[k][i].m = "Labels" /\ trace[k][i].op = "callManual"
              /\ trace[k][i].x = ExtraNames

\* The paths NewConversionGenerator has to do with, and the ones among them
\* that cannot be loaded or hold a malformed function.
Scanned == {opts.peerPackages[i] : i \in 1..Len(opts.peerPackages)} \cup {HomePkg}

Faulty == {p \in Scanned : p \notin ret.t.loadable \/ Len(ret.t.malformed[p]) > 0}

\* The place of a path in the scan: the peer packages in their order, then
\* the output and the types package.
ScanIndex(p) ==
    LET at == {i \in 1..Len(opts.peerPackages) : opts.peerPackages[i] = p}
    IN IF at = {} THEN Len(opts.peerPackages) + 1 ELSE CHOOSE i \in at : \A j \in at : i <= j

\* C25: when a package NewConversionGenerator loads or scans cannot be loaded
\* or holds a malformed manual conversion function, it returns an error and no
\* generator, and a generator and no error otherwise; an error of the scan
\* names the first faulty package of the scan and every malformed function
\* found in it, in order.
C25_ConstructionAborts ==
    ret.op = "NewConversionGenerator" =>
        /\ Faulty # {} => ~ret.val.generator /\ ret.val.err # NoError
        /\ Faulty = {} => ret.val.generator /\ ret.val.err = NoError
        /\ ret.val.err.kind = "load" => ret.val.err.pkg = HomePkg /\ HomePkg \notin ret.t.loadable
        /\ ret.val.err.kind = "manual" =>
              /\ ret.val.err.pkg \in Faulty
              /\ \A p \in Faulty : ScanIndex(ret.val.err.pkg) <= ScanIndex(p)
              /\ ret.val.err.pkg \in ret.t.loadable => ret.val.err.functions = ret.t.malformed[ret.val.err.pkg]
        /\ filtered = 0 /\ generated = <<>> /\ trace = <<>>

\* Peer packages p1 then p2, all loadable, two malformed functions in p1 and
\* one in p2: no generator, and an error that lists the two of p1.
C25_Witness ==
    /\ ret.op = "NewConversionGenerator"
    /\ opts.peerPackages = <<"p1", "p2">>
    /\ ret.t.loadable = PackagePaths
    /\ Len(ret.t.malformed["p1"]) = 2 /\ Len(ret.t.malformed["p2"]) = 1
    /\ ~ret.val.generator
    /\ ret.val.err.kind = "manual" /\ ret.val.err.pkg = "p1"
    /\ Len(ret.val.err.functions) = 2

\* What the branch of a kind writes for a pair of types.
BranchFor(kind, inType, outType) ==
    CASE kind = "Builtin" -> doBuiltin(inType, outType).ev
      [] kind = "Map" -> doMap(inType, outType).ev
      [] kind = "Slice" -> doSlice(inType, outType).ev
      [] kind = "Struct" -> doStruct(inType, outType).ev
      [] kind = "Pointer" -> doPointer(inType, outType).ev
      [] kind = "Alias" -> doAlias(inType, outType).ev
      [] OTHER -> doUnknown(inType, outType).ev

KindsDiffer(k) == universe[results[k].in].kind # universe[results[k].out].kind

\* C26 (as claimed): for a pair whose source and target kinds differ, the body
\* of the private function is what the branch of the target's kind writes.
C26_TargetKindSelects ==
    \A k \in LastCalls :
        KindsDiffer(k) =>
            Body(k) = BranchFor(universe[results[k].out].kind, results[k].in, results[k].out)

\* C26 (amended): the body of the private function is what the branch of the
\* source type's kind writes; for a Record source and a target of another kind
\* it is one group of statements for each source member and nothing else, for
\* a source that is a NamedAlias or of no supported kind it is the one event of
\* the unsupported-type site, whatever the target's kind.
C26_SourceKindSelects ==
    \A k \in LastCalls :
        LET in == results[k].in
            out == results[k].out
        IN /\ Body(k) = BranchFor(universe[in].kind, in, out)
           /\ KindsDiffer(k) /\ universe[in].kind = "Struct" =>
                 \A i \in 1..Len(Body(k)) :
                     \E j \in 1..Len(universe[in].members) :
                         Body(k)[i].m = universe[in].members[j].name
           /\ KindsDiffer(k) /\ universe[in].kind \in {"Alias", "Interface"} =>
                 /\ Len(Body(k)) = 1
                 /\ Body(k)[1].op \in {"warn", "handler"}
                 /\ Body(k)[1].f \in {"unsupported", "Unsupported"}

\* The Record home.Bee and its peer, the NamedAlias p2.B, in both directions:
\* the Record's branch writes nothing for a Record without members, the
\* alias's branch comes to the unsupported-type site.
C26_Witness ==
    \E k \in LastCalls :
        /\ k + 1 \in LastCalls
        /\ results[k].in = "home.Bee" /\ results[k].out = "p2.B"
        /\ universe["home.Bee"].kind = "Struct" /\ universe["p2.B"].kind = "Alias"
        /\ Body(k) = <<>>
        /\ Len(Body(k + 1)) = 1
        /\ Body(k + 1)[1].f \in {"unsupported", "Unsupported"}

\* The source members of the k-th call whose kind, on the copies doStruct makes
\* of alias members, is not the kind of the target's member, and that neither
\* the unsafe conversion nor a manual function takes care of.
KindMismatch(k) ==
    {i \in Converted(k) :
        LET inMemberType == CopyId(SourceMembers(k)[i].type, "in")
            outMemberType == CopyId(TargetMember(k, i).type, "out")
            function == preexists(SourceMembers(k)[i].type, TargetMember(k, i).type)
        IN /\ TypeOf(inMemberType).kind # TypeOf(outMemberType).kind
           /\ ~(/\ useUnsafeConversion(inMemberType, outMemberType)
                /\ TypeOf(inMemberType).kind \in {"Pointer", "Map", "Slice"})
           /\ \/ function = NoFunc
              \/ /\ ~functionHasTag(function, "drop")
                 /\ functionHasTag(function, "copy-only")
                 /\ isFastConversion(inMemberType, outMemberType)}

InconvertibleSites(evs) ==
    {j \in 1..Len(evs) :
        \/ evs[j].op = "warn" /\ evs[j].f = "inconvertible"
        \/ evs[j].op = "handler" /\ evs[j].f = "Inconvertible"}

\* C27: for a Record member whose source and target kinds differ after alias
\* unwrapping, with no manual function called and no unsafe conversion, no
\* statement is written; InconvertibleFieldsHandler is invoked exactly once
\* when it is set, and there is one field error exactly when it returns an
\* error; when it is not set there is one warning and no field error; the
\* members after it are processed and the private function is closed.
C27_KindMismatchDeferred ==
    \A k \in LastCalls : \A i \in KindMismatch(k) :
        LET ms == SourceMembers(k)
            evs == MemberEvents(k, ms[i].name)
            errs == MemberErrors(k, ms[i].name)
            sites == InconvertibleSites(evs)
        IN /\ Ops(evs) \cap StatementOps = {}
           /\ Cardinality(sites) = 1
           /\ \A j \in 1..Len(evs) : evs[j].op \in {"warn", "handler"} => j \in sites
           /\ \A j \in sites : evs[j].op = "handler" <=> opts.inconv # "unset"
           /\ Len(errs) = (IF opts.inconv = "err" THEN 1 ELSE 0)
           /\ \A j \in 1..Len(errs) : errs[j].handler = "Inconvertible"
           /\ CloseAt(k) # 0
           /\ \A j \in (i + 1)..Len(ms) : MemberEvents(k, ms[j].name) # <<>>

\* home.A -> p1.A with a handler that returns an error: Kind is an int in
\* home.A and a []string in p1.A, the handler is invoked once, there is one
\* field error, and Sub after it is converted.
C27_Witness ==
    \E k \in LastCalls :
        /\ opts.inconv = "err"
        /\ results[k].in = "home.A" /\ results[k].out = "p1.A"
        /\ MemberIndex(k, "Kind") \in KindMismatch(k)
        /\ Cardinality(InconvertibleSites(MemberEvents(k, "Kind"))) = 1
        /\ Len(MemberErrors(k, "Kind")) = 1
        /\ Ops(MemberEvents(k, "Sub")) \cap StatementOps # {}

\* The first place of a path in the inputs of the call.
FirstInput(p) ==
    LET at == {i \in 1..Len(ret.t.inputs) : ret.t.inputs[i] = p}
    IN CHOOSE i \in at : \A j \in at : i <= j

\* The inputs of the call that have a package in the universe.
PresentInputs == {ret.t.inputs[i] : i \in 1..Len(ret.t.inputs)} \cap Packages

\* C28: Converter.packages returns one output package, with one generator,
\* for each distinct input path that has a package in the universe, in the
\* order these paths first occur in the inputs; repeated paths and paths
\* without a package add nothing and are no error; all generators hold the
\* same tracker, the one of the options when there is one. The run ends
\* without packages exactly when the generator of such an input cannot be
\* built.
C28_OnePackagePerInput ==
    ret.op = "packages" =>
        LET out == ret.val.packages
        IN /\ ret.val.fatal <=>
                 \E p \in PresentInputs :
                     ~newConversionGenerator(Packages, ret.t.malformed, p, p,
                                             opts.peerPackages).generator
           /\ ret.val.fatal => out = <<>>
           /\ ~ret.val.fatal =>
                 /\ {out[i].PackagePath : i \in 1..Len(out)} = PresentInputs
                 /\ \A i, j \in 1..Len(out) :
                       /\ i # j => out[i].PackagePath # out[j].PackagePath
                       /\ i < j => FirstInput(out[i].PackagePath) < FirstInput(out[j].PackagePath)
                       /\ out[i].tracker = out[j].tracker
                 /\ \A i \in 1..Len(out) :
                       /\ out[i].typesPackage = out[i].PackagePath
                       /\ out[i].outputPackage = out[i].PackagePath
                       /\ ret.t.tracker # "nil" => out[i].tracker = ret.t.tracker

\* Inputs p1, gone, home, p1 and no tracker in the options: two packages, p1
\* then home, with the same new tracker.
C28_Witness ==
    /\ ret.op = "packages"
    /\ ret.t.inputs = <<"p1", "gone", "home", "p1">>
    /\ ret.t.tracker = "nil"
    /\ ~ret.val.fatal
    /\ Len(ret.val.packages) = 2
    /\ ret.val.packages[1].PackagePath = "p1" /\ ret.val.packages[2].PackagePath = "home"
    /\ ret.val.packages[1].tracker = NewManualConversionsTracker
    /\ ret.val.packages[2].tracker = NewManualConversionsTracker

\* The names of the source members of the k-th call.
SourceNames(k) == {SourceMembers(k)[i].name : i \in 1..Len(SourceMembers(k))}

\* The names of the members that only the target of the k-th call has.
TargetOnly(k) ==
    IF universe[results[k].out].kind # "Struct"
    THEN {}
    ELSE {universe[results[k].out].members[j].name :
             j \in 1..Len(universe[results[k].out].members)} \ SourceNames(k)

HandlerCalls(evs) == {j \in 1..Len(evs) : evs[j].op = "handler"}

\* C29: the body of a conversion from a Record is made of the source members'
\* statements only, in declaration order: no statement, handler invocation,
\* warning or field error belongs to a member that only the target has; a
\* source member has at most one handler invocation and at most one field
\* error; and the pair has no more field errors than the source has members.
C29_SourceMembersOnly ==
    \A k \in LastCalls :
        universe[results[k].in].kind = "Struct" =>
            LET body == Body(k)
                names == SourceNames(k)
                index == [n \in names |-> MemberIndex(k, n)]
            IN /\ \A i \in 1..Len(body) : body[i].m \in names
               /\ \A i \in 1..Len(results[k].errors) : results[k].errors[i].m \in names
               /\ \A n \in TargetOnly(k) : MemberEvents(k, n) = <<>> /\ MemberErrors(k, n) = <<>>
               /\ \A i \in 1..(Len(body) - 1) : index[body[i].m] <= index[body[i + 1].m]
               /\ \A n \in names :
                     /\ Cardinality(HandlerCalls(MemberEvents(k, n))) <= 1
                     /\ Len(MemberErrors(k, n)) <= 1
               /\ Len(results[k].errors) <= Len(SourceMembers(k))

\* home.A -> p1.A with handlers that return errors: p1.A alone has Other,
\* nothing is written or reported for it, while Extra (missing in p1.A) and
\* Kind (an int against a []string) have one handler invocation and one field
\* error each.
C29_Witness ==
    \E k \in LastCalls :
        /\ opts.missing = "err" /\ opts.inconv = "err"
        /\ results[k].in = "home.A" /\ results[k].out = "p1.A"
        /\ "Other" \in TargetOnly(k)
        /\ MemberEvents(k, "Other") = <<>>
        /\ Cardinality(HandlerCalls(MemberEvents(k, "Extra"))) = 1
        /\ Len(MemberErrors(k, "Extra")) = 1
        /\ Len(MemberErrors(k, "Kind")) = 1
        /\ Len(results[k].errors) >= 2

====
